---- MODULE Spec2Model ----
(***************************************************************************)
(* Markdown-to-HTML: the front-matter extractor, the renderer and the      *)
(* template loader of md2html.py, and the template resolver of the         *)
(* specification, as state machines.                                       *)
(*                                                                         *)
(* A text (Python str) is a sequence of one-character strings.             *)
(***************************************************************************)
EXTENDS Integers, Sequences, FiniteSets, TLC

(***************************************************************************)
(* Bounds of the model.                                                    *)
(***************************************************************************)
\* Largest number of top-level keys of a generated front-matter mapping.
MaxKeys == 2
\* Largest number of extra white-space characters after a delimiter.
MaxPad == 1
\* Largest number of directories above a document.
MaxDepth == 2
\* Largest number of template files among the available identifiers.
MaxTemplates == 2

(***************************************************************************)
(* Texts.                                                                  *)
(***************************************************************************)
Max(S) == CHOOSE x \in S : \A y \in S : y <= x
Min(S) == CHOOSE x \in S : \A y \in S : x <= y

RECURSIVE Join(_, _)
\* sep.join(parts)
Join(parts, sep) ==
  IF parts = <<>> THEN <<>>
  ELSE IF Len(parts) = 1 THEN parts[1]
  ELSE parts[1] \o sep \o Join(Tail(parts), sep)

RECURSIVE Concat(_)
Concat(parts) == IF parts = <<>> THEN <<>> ELSE parts[1] \o Concat(Tail(parts))

\* s[i:] of Python, for the 0-based offset i
From(s, i) == SubSeq(s, i + 1, Len(s))

IsAt(s, i, lit) ==
  /\ i >= 1
  /\ i + Len(lit) - 1 <= Len(s)
  /\ SubSeq(s, i, i + Len(lit) - 1) = lit

StartsWith(s, p) == IsAt(s, 1, p)

Contains(s, c) == \E i \in 1..Len(s) : s[i] = c

IsSubstring(p, s) == \E i \in 1..(Len(s) + 1) : p = <<>> \/ IsAt(s, i, p)

RECURSIVE Replace(_, _, _)
\* s.replace(c, by) for a one-character c
Replace(s, c, by) ==
  IF s = <<>> THEN <<>>
  ELSE (IF s[1] = c THEN by ELSE <<s[1]>>) \o Replace(Tail(s), c, by)

RECURSIVE SplitAt(_, _)
\* s.split(c) for a one-character c: the sequence of the pieces
SplitAt(s, c) ==
  IF ~Contains(s, c) THEN <<s>>
  ELSE LET i == Min({j \in 1..Len(s) : s[j] = c})
       IN <<SubSeq(s, 1, i - 1)>> \o SplitAt(SubSeq(s, i + 1, Len(s)), c)

(***************************************************************************)
(* The regular expression of extract_yaml_frontmatter,                     *)
(*     ^---\s*\n(.*?)\n---\s*\n     (re.DOTALL, re.match)                  *)
(* matched in the order of a backtracking matcher: the first \s* greedy,   *)
(* the group lazy, the second \s* greedy.                                  *)
(***************************************************************************)
\* \s
IsSpace(c) == c \in {" ", "\n", "\t"}

RECURSIVE SpaceRun(_, _)
\* The length of the longest run of \s starting at index i.
SpaceRun(s, i) ==
  IF i <= Len(s) /\ IsSpace(s[i]) THEN 1 + SpaceRun(s, i + 1) ELSE 0

Dashes == <<"-", "-", "-">>

\* The offsets b < w for which s[from + b] is a line break.
LineBreaks(s, from, w) == {b \in 0..(w - 1) : s[from + b] = "\n"}

\* \s*\n matched greedily at index from: the index of its last character, or 0.
SpaceThenBreak(from, breaks) == IF breaks = {} THEN 0 ELSE from + Max(breaks)

\* \n---\s*?\n, with the white space taken lazily: up to the first line break.
CloseEndLazy(s, e) ==
  IF ~IsAt(s, e, <<"\n">> \o Dashes) \/ LineBreaks(s, e + 4, SpaceRun(s, e + 4)) = {}
  THEN 0
  ELSE e + 4 + Min(LineBreaks(s, e + 4, SpaceRun(s, e + 4)))

\* \n---\s*\n matched at index e: the index of its last character, or 0.
CloseEnd(s, e) ==
  IF ~IsAt(s, e, <<"\n">> \o Dashes) THEN 0
  ELSE SpaceThenBreak(e + 4, LineBreaks(s, e + 4, SpaceRun(s, e + 4)))

\* The indexes from st on at which \n---\s*\n matches.
Closes(s, st) == {x \in st..Len(s) : CloseEnd(s, x) # 0}

NoMatch == [matched |-> FALSE, group1 |-> <<>>, end |-> 0]

\* The match whose group starts at st and ends before e.
MatchOf(s, st, e) ==
  [matched |-> TRUE, group1 |-> SubSeq(s, st, e - 1), end |-> CloseEnd(s, e)]

\* The lengths a of the first \s* after which \n matches and the rest can match.
Opens(s, w) == {a \in 0..(w - 1) : s[4 + a] = "\n" /\ Closes(s, 5 + a) # {}}

\* The first \s* takes the longest run it can, the group the shortest text.
MatchOpen(s, opens) ==
  IF opens = {} THEN NoMatch
  ELSE MatchOf(s, 5 + Max(opens), Min(Closes(s, 5 + Max(opens))))

\* The pattern matched at the start of s only.
pattern_match(s) ==
  IF ~IsAt(s, 1, Dashes) THEN NoMatch ELSE MatchOpen(s, Opens(s, SpaceRun(s, 4)))

\* The offsets at which the pattern matches in s.
MatchOffsets(s) == {i \in 0..Len(s) : pattern_match(From(s, i)).matched}

Shifted(m, i) == [matched |-> TRUE, group1 |-> m.group1, end |-> m.end + i]

\* The pattern searched for anywhere in s: the leftmost match.
pattern_search(s) ==
  IF MatchOffsets(s) = {} THEN NoMatch
  ELSE Shifted(pattern_match(From(s, Min(MatchOffsets(s)))), Min(MatchOffsets(s)))

\* frontmatter_pattern.match(md_content): group(1) and match.end()
frontmatter_pattern(s) == pattern_match(s)

(***************************************************************************)
(* Python values.  v is always a sequence: the characters of a str, an int *)
(* (its decimal digits) or a date (its ISO form), the elements of a list,  *)
(* the items [k, val] of a dict in insertion order.                        *)
(***************************************************************************)
None == [t |-> "none", v |-> <<>>]
PyStr(s) == [t |-> "str", v |-> s]
PyInt(digits) == [t |-> "int", v |-> digits]
PyDate(iso) == [t |-> "date", v |-> iso]
PyList(xs) == [t |-> "list", v |-> xs]
PyDict(items) == [t |-> "dict", v |-> items]
Item(k, val) == [k |-> k, val |-> val]

\* bool(x) of Python
Truthy(x) ==
  CASE x.t = "none" -> FALSE
    [] x.t = "int" -> \E i \in 1..Len(x.v) : x.v[i] # "0"
    [] x.t = "date" -> TRUE
    [] OTHER -> x.v # <<>>

HasKey(items, k) == \E i \in 1..Len(items) : items[i].k = k
KeyIndex(items, k) == Min({i \in 1..Len(items) : items[i].k = k})
\* d[k]
Get(items, k) == items[KeyIndex(items, k)].val
\* d[k] = val: an existing key keeps its place, a new key goes last
DictSet(items, k, val) ==
  IF HasKey(items, k)
  THEN [items EXCEPT ![KeyIndex(items, k)] = Item(k, val)]
  ELSE Append(items, Item(k, val))

RECURSIVE DictUpdate(_, _)
\* d.update(other) for a dict other
DictUpdate(items, other) ==
  IF other = <<>> THEN items
  ELSE DictUpdate(DictSet(items, other[1].k, other[1].val), Tail(other))

(***************************************************************************)
(* yaml.safe_load on the block-style and single-line flow-style subset of  *)
(* YAML the generated documents use: a plain scalar, a block sequence of   *)
(* scalars, a block mapping `key: value` whose values are scalars or       *)
(* one-line flow collections of scalars.  The result is the value or the   *)
(* exception raised.                                                       *)
(***************************************************************************)
Ok(val) == [exc |-> "", val |-> val]
Raise(e) == [exc |-> e, val |-> None]

\* A syntax error (composer) comes before a construction error.
FirstExc(rs) ==
  IF \E i \in 1..Len(rs) : rs[i].exc = "YAMLError" THEN "YAMLError"
  ELSE IF \E i \in 1..Len(rs) : rs[i].exc # "" THEN rs[Min({i \in 1..Len(rs) : rs[i].exc # ""})].exc
  ELSE ""

Digit == {"0", "1", "2", "3", "4", "5", "6", "7", "8", "9"}
DigitVal(c) ==
  CASE c = "0" -> 0 [] c = "1" -> 1 [] c = "2" -> 2 [] c = "3" -> 3 [] c = "4" -> 4
    [] c = "5" -> 5 [] c = "6" -> 6 [] c = "7" -> 7 [] c = "8" -> 8 [] c = "9" -> 9

RECURSIVE Strip(_)
\* s.strip() for blanks
Strip(s) ==
  IF s = <<>> THEN s
  ELSE IF s[1] \in {" ", "\t"} THEN Strip(Tail(s))
  ELSE IF s[Len(s)] \in {" ", "\t"} THEN Strip(SubSeq(s, 1, Len(s) - 1))
  ELSE s

\* tag:yaml.org,2002:int, decimal form
IsInt(x) == x # <<>> /\ (\A i \in 1..Len(x) : x[i] \in Digit) /\ (Len(x) = 1 \/ x[1] # "0")

\* tag:yaml.org,2002:timestamp, date-only form [0-9]{4}-[0-9]{2}-[0-9]{2}
IsTimestamp(x) ==
  /\ Len(x) = 10
  /\ x[5] = "-" /\ x[8] = "-"
  /\ \A i \in {1, 2, 3, 4, 6, 7, 9, 10} : x[i] \in Digit

IsLeap(y) == y % 4 = 0 /\ (y % 100 # 0 \/ y % 400 = 0)
DaysIn(y, m) ==
  IF m \in {4, 6, 9, 11} THEN 30
  ELSE IF m = 2 THEN (IF IsLeap(y) THEN 29 ELSE 28)
  ELSE 31

\* datetime.date(year, month, day) accepts
ValidDate(x) ==
  LET y == DigitVal(x[1]) * 1000 + DigitVal(x[2]) * 100 + DigitVal(x[3]) * 10 + DigitVal(x[4])
      m == DigitVal(x[6]) * 10 + DigitVal(x[7])
      d == DigitVal(x[9]) * 10 + DigitVal(x[10])
  IN y >= 1 /\ m \in 1..12 /\ d \in 1..DaysIn(y, m)

\* A plain scalar without the blanks around it, resolved and constructed.
resolve(x) ==
  IF x = <<>> \/ x = <<"~">> THEN Ok(None)
  ELSE IF IsInt(x) THEN Ok(PyInt(x))
  ELSE IF IsTimestamp(x)
       THEN (IF ValidDate(x) THEN Ok(PyDate(x)) ELSE Raise("ValueError"))
  ELSE IF x[1] \in {"[", "]", "{", "}", ","} THEN Raise("YAMLError")
  ELSE Ok(PyStr(x))

construct_scalar(s) == resolve(Strip(s))

Vals(rs) == [i \in 1..Len(rs) |-> rs[i].val]
ListOf(rs) == IF FirstExc(rs) # "" THEN Raise(FirstExc(rs)) ELSE Ok(PyList(Vals(rs)))
DictOf(rs) ==
  IF FirstExc(rs) # "" THEN Raise(FirstExc(rs))
  ELSE Ok(PyDict(DictUpdate(<<>>, Vals(rs))))
PairOf(k, val) ==
  IF FirstExc(<<k, val>>) # "" THEN Raise(FirstExc(<<k, val>>))
  ELSE Ok(Item(k.val, val.val))

\* The index of the first `:` that ends the line or is followed by a blank, or 0.
KeyEnds(line) ==
  {i \in 1..Len(line) : line[i] = ":" /\ (i = Len(line) \/ line[i + 1] = " ")}
KeyEnd(line) == IF KeyEnds(line) = {} THEN 0 ELSE Min(KeyEnds(line))

\* `key: value` with a scalar value, the key ending at index i
PairAt(line, i) ==
  IF i = 0 THEN Raise("YAMLError")
  ELSE PairOf(construct_scalar(SubSeq(line, 1, i - 1)),
              construct_scalar(SubSeq(line, i + 1, Len(line))))

Trimmed(parts) == [i \in 1..Len(parts) |-> Strip(parts[i])]
Scalars(parts) == [i \in 1..Len(parts) |-> resolve(parts[i])]
Pairs(parts) == [i \in 1..Len(parts) |-> PairAt(parts[i], KeyEnd(parts[i]))]

\* [ ... ] and { ... } on one line, given the text between the brackets
flow_sequence(inner) ==
  IF inner = <<>> THEN Ok(PyList(<<>>))
  ELSE ListOf(Scalars(Trimmed(SplitAt(inner, ","))))
flow_mapping(inner) ==
  IF inner = <<>> THEN Ok(PyDict(<<>>))
  ELSE DictOf(Pairs(Trimmed(SplitAt(inner, ","))))

Closed(x, c) == Len(x) >= 2 /\ x[Len(x)] = c
Inner(x) == Strip(SubSeq(x, 2, Len(x) - 1))

\* A value without the blanks around it: a flow collection or a scalar.
value_of(x) ==
  IF x # <<>> /\ x[1] = "["
  THEN (IF Closed(x, "]") THEN flow_sequence(Inner(x)) ELSE Raise("YAMLError"))
  ELSE IF x # <<>> /\ x[1] = "{"
  THEN (IF Closed(x, "}") THEN flow_mapping(Inner(x)) ELSE Raise("YAMLError"))
  ELSE resolve(x)

construct_value(src) == value_of(Strip(src))

\* One line `key: value` or `key:` of a block mapping, the key ending at i.
MappingLineAt(line, i) ==
  IF i = 0 \/ line[1] = " " THEN Raise("YAMLError")
  ELSE PairOf(construct_scalar(SubSeq(line, 1, i - 1)),
              construct_value(SubSeq(line, i + 1, Len(line))))

MappingLines(lines) ==
  [i \in 1..Len(lines) |-> MappingLineAt(lines[i], KeyEnd(lines[i]))]

IsEntry(line) == StartsWith(line, <<"-", " ">>)
Entries(lines) == [i \in 1..Len(lines) |-> construct_value(From(lines[i], 2))]

IsBlank(line) == \A i \in 1..Len(line) : IsSpace(line[i])
NotBlank(line) == ~IsBlank(line)

\* A leading `---` is the document start marker.
SkipMarker(lines) ==
  IF lines # <<>> /\ Strip(lines[1]) = Dashes THEN Tail(lines) ELSE lines

\* The document made of these lines, none of them blank.
document(lines) ==
  IF lines = <<>> THEN Ok(None)
  ELSE IF IsEntry(lines[1])
  THEN (IF \E i \in 1..Len(lines) : ~IsEntry(lines[i]) THEN Raise("YAMLError")
        ELSE ListOf(Entries(lines)))
  ELSE IF lines[1][1] \in {"[", "{"}
  THEN (IF Len(lines) > 1 THEN Raise("YAMLError") ELSE value_of(Strip(lines[1])))
  ELSE IF KeyEnd(lines[1]) # 0 THEN DictOf(MappingLines(lines))
  ELSE IF \E i \in 1..Len(lines) : KeyEnd(lines[i]) # 0 \/ IsEntry(lines[i])
  THEN Raise("YAMLError")
  ELSE resolve(Join(Trimmed(lines), <<" ">>))

\* yaml.safe_load(yaml_content)
safe_load(yaml_content) ==
  document(SkipMarker(SelectSeq(SplitAt(yaml_content, "\n"), NotBlank)))

(***************************************************************************)
(* str(), repr() and yaml.dump() of Python values.                         *)
(***************************************************************************)
CommaSpace == <<",", " ">>

RECURSIVE Unpad(_)
\* The decimal digits of int(digits)
Unpad(digits) ==
  IF Len(digits) > 1 /\ digits[1] = "0" THEN Unpad(Tail(digits)) ELSE digits

RECURSIVE str(_), repr(_)
\* repr(x); a str that holds no single quote is written in single quotes
repr(x) ==
  CASE x.t = "str" -> <<"'">> \o x.v \o <<"'">>
    [] x.t = "date" ->
         <<"d", "a", "t", "e", "t", "i", "m", "e", ".", "d", "a", "t", "e", "(">>
         \o Unpad(SubSeq(x.v, 1, 4)) \o CommaSpace \o Unpad(SubSeq(x.v, 6, 7))
         \o CommaSpace \o Unpad(SubSeq(x.v, 9, 10)) \o <<")">>
    [] OTHER -> str(x)
\* str(x)
str(x) ==
  CASE x.t = "none" -> <<"N", "o", "n", "e">>
    [] x.t = "list" ->
         <<"[">> \o Join([i \in 1..Len(x.v) |-> repr(x.v[i])], CommaSpace) \o <<"]">>
    [] x.t = "dict" ->
         <<"{">> \o Join([i \in 1..Len(x.v) |->
                            repr(x.v[i].k) \o <<":", " ">> \o repr(x.v[i].val)],
                         CommaSpace) \o <<"}">>
    [] OTHER -> x.v

\* The order of the characters the generated documents use.
Alphabet == <<"\n", " ", "\"", "&", "'", "(", ")", ",", "-", "0", "1", "2", "3", "4",
              "5", "6", "7", "8", "9", ":", ";", "<", "=", ">", "N", "T", "[", "]",
              "_", "a", "b", "c", "d", "e", "g", "h", "i", "k", "l", "m", "n", "o",
              "p", "q", "s", "t", "u", "v", "x", "y", "{", "}">>
Ord(c) == Min({i \in 1..Len(Alphabet) : Alphabet[i] = c})

RECURSIVE Less(_, _)
\* a < b on str
Less(a, b) ==
  IF b = <<>> THEN FALSE
  ELSE IF a = <<>> THEN TRUE
  ELSE IF a[1] = b[1] THEN Less(Tail(a), Tail(b))
  ELSE Ord(a[1]) < Ord(b[1])

\* The index of the item that sorted() puts first.
First(items) ==
  CHOOSE i \in 1..Len(items) :
    \A j \in 1..Len(items) : \/ j = i
                             \/ Less(items[i].k.v, items[j].k.v)
                             \/ (items[i].k = items[j].k /\ i < j)

Without(items, m) == SubSeq(items, 1, m - 1) \o SubSeq(items, m + 1, Len(items))

RECURSIVE Sorted(_)
\* sorted(items) by key; keys of mixed types are left in insertion order
Sorted(items) ==
  IF items = <<>> \/ \E i \in 1..Len(items) : items[i].k.t # "str" THEN items
  ELSE <<items[First(items)]>> \o Sorted(Without(items, First(items)))

\* A scalar in yaml.dump's style: plain when it reads back as itself
dump_scalar(x) ==
  IF x.t = "none" THEN <<"n", "u", "l", "l">>
  ELSE IF x.t = "str" /\ resolve(x.v) # Ok(x) THEN <<"'">> \o x.v \o <<"'">>
  ELSE x.v

dump_entries(xs) ==
  Concat([i \in 1..Len(xs) |-> <<"-", " ">> \o dump_scalar(xs[i]) \o <<"\n">>])

dump_item(it) ==
  dump_scalar(it.k) \o <<":">> \o
  (IF it.val.t = "list" THEN <<"\n">> \o dump_entries(it.val.v)
   ELSE <<" ">> \o dump_scalar(it.val) \o <<"\n">>)

dump_items(items) ==
  IF items = <<>> THEN <<"{", "}", "\n">>
  ELSE Concat([i \in 1..Len(items) |-> dump_item(items[i])])

\* yaml.dump(value, default_flow_style=False) of a dict of scalars and
\* of lists of scalars
dump(value) == dump_items(Sorted(value.v))

(***************************************************************************)
(* The documents the model reads.  A document is assembled from its parts, *)
(*     lead --- pad1 \n content \n --- pad2 \n gap rest                    *)
(* so that what the extractor returns can be compared with what was put    *)
(* in.  The content of a block is either the YAML text of a mapping or one *)
(* of the other contents (a scalar, a list, nothing, a malformed block).   *)
(***************************************************************************)
K_title == <<"t", "i", "t", "l", "e">>
K_content == <<"c", "o", "n", "t", "e", "n", "t">>
K_meta_tags == <<"m", "e", "t", "a", "_", "t", "a", "g", "s">>
QuotedText == <<"a", "\"", "b">>

\* The key-value pairs of generated mappings.
GenItems ==
  { Item(PyStr(K_title), PyStr(<<"T">>)),
    Item(PyStr(K_title), PyStr(QuotedText)),
    Item(PyStr(K_title), None),
    Item(PyStr(K_content), PyStr(<<"x">>)),
    Item(PyStr(K_meta_tags), PyList(<<PyStr(<<"m">>)>>)),
    Item(PyStr(K_meta_tags), PyStr(<<"m">>)),
    Item(PyInt(<<"1">>), PyStr(<<"v">>)),
    Item(PyStr(<<"k">>), PyList(<<PyStr(<<"a">>), PyStr(QuotedText), PyInt(<<"7">>)>>)),
    Item(PyStr(<<"k">>), PyDict(<<Item(PyStr(<<"c">>), PyStr(QuotedText)),
                                  Item(PyStr(<<"b">>), PyStr(<<"y">>))>>)),
    Item(PyStr(<<"k">>), PyDate(<<"2", "0", "2", "3", "-", "0", "1", "-", "0", "1">>)) }

\* The mappings: up to MaxKeys pairs with distinct keys, in every order.
GenMappings ==
  UNION { { m \in [1..n -> GenItems] : \A i, j \in 1..n : i # j => m[i].k # m[j].k }
          : n \in 1..MaxKeys }

\* The YAML text of a generated value, flow style.
Flat(y) == IF y.t = "none" THEN <<>> ELSE y.v
Emit(x) ==
  CASE x.t = "list" ->
         <<"[">> \o Join([i \in 1..Len(x.v) |-> Flat(x.v[i])], CommaSpace) \o <<"]">>
    [] x.t = "dict" ->
         <<"{">> \o Join([i \in 1..Len(x.v) |->
                            Flat(x.v[i].k) \o <<":", " ">> \o Flat(x.v[i].val)],
                         CommaSpace) \o <<"}">>
    [] OTHER -> Flat(x)

EmitLine(k, val) == k \o <<":">> \o (IF val = <<>> THEN <<>> ELSE <<" ">> \o val)

\* The YAML text of a generated mapping, one `key: value` line per pair.
EmitMapping(m) ==
  Join([i \in 1..Len(m) |-> EmitLine(Emit(m[i].k), Emit(m[i].val))], <<"\n">>)

\* Contents that are no mapping of GenMappings.
C_scalar == <<"h", "i">>
C_list == <<"-", " ", "a">>
C_nothing == <<>>
C_null == <<"~">>
C_emptydict == <<"{", "}">>
C_zero == <<"0">>
C_unclosed == <<"k", ":", " ", "[", "a">>
C_baddate == <<"d", ":", " ", "2", "0", "2", "3", "-", "1", "3", "-", "4", "5">>
OtherContents ==
  {C_scalar, C_list, C_nothing, C_null, C_emptydict, C_zero, C_unclosed, C_baddate}

\* Bodies
B_heading == <<"#", " ", "H", "i", "\n">>
B_para == <<"p", "\n">>
B_block == Dashes \o <<"\n", "k", ":", " ", "v", "\n">> \o Dashes \o <<"\n">>
Bodies == {<<>>, B_heading, B_para, B_block}

\* White space after a delimiter: up to MaxPad blanks and line breaks.
Pads == UNION { [1..n -> {" ", "\n"}] : n \in 0..MaxPad }

\* shape "block": a delimited block; "empty": two consecutive delimiter lines;
\* "open": a block that is never closed; "plain": no block; "long": four hyphens.
Assemble(d) ==
  CASE d.shape = "block" ->
         d.lead \o Dashes \o d.pad1 \o <<"\n">> \o d.content \o <<"\n">> \o Dashes
         \o d.pad2 \o <<"\n">> \o d.gap \o d.rest
    [] d.shape = "empty" ->
         d.lead \o Dashes \o d.pad1 \o <<"\n">> \o Dashes \o d.pad2 \o <<"\n">>
         \o d.gap \o d.rest
    [] d.shape = "open" ->
         d.lead \o Dashes \o d.pad1 \o <<"\n">> \o d.content \o <<"\n">> \o d.gap \o d.rest
    [] d.shape = "long" ->
         d.lead \o <<"-">> \o Dashes \o d.pad1 \o <<"\n">> \o d.content \o <<"\n">>
         \o Dashes \o d.pad2 \o <<"\n">> \o d.gap \o d.rest
    [] OTHER -> d.lead \o d.gap \o d.rest

\* A content with the mapping it is the YAML text of (<<>> when it is none).
Content(text, mapping) == [text |-> text, mapping |-> mapping]
MappingContents == {Content(EmitMapping(m), m) : m \in GenMappings}
TitleContent == Content(EmitMapping(<<Item(PyStr(K_title), PyStr(<<"T">>))>>),
                        <<Item(PyStr(K_title), PyStr(<<"T">>))>>)

Doc(shape, lead, pad1, c, pad2, gap, rest) ==
  [shape |-> shape, lead |-> lead, pad1 |-> pad1, content |-> c.text,
   mapping |-> c.mapping, pad2 |-> pad2, gap |-> gap, rest |-> rest]

Leads == {<<>>, <<"\n">>, <<" ">>, <<"x", "\n">>}

\* Every content in the plain layout; the layouts with a few contents.
Docs ==
  { Doc("block", <<>>, <<>>, c, <<>>, g, B_heading) :
      c \in MappingContents \cup {Content(t, <<>>) : t \in OtherContents},
      g \in {<<>>, <<"\n">>} }
  \cup
  { Doc(sh, l, p1, c, p2, g, r) :
      sh \in {"block", "empty", "open", "plain", "long"},
      l \in Leads, p1 \in Pads, p2 \in Pads, g \in Pads, r \in Bodies,
      c \in {TitleContent, Content(C_unclosed, <<>>)} }

(***************************************************************************)
(* markdown.markdown on documents made of blank lines, # headers, setext   *)
(* headers, rules and paragraphs whose lines hold no inline markup (the    *)
(* nl2br extension turns a line break of a paragraph into <br />).         *)
(***************************************************************************)
\* (-+[ ]{0,2}){3,}[ ]*  on a line
AllIn(x, S) == \A i \in 1..Len(x) : x[i] \in S
IsRule(l) == l # <<>> /\ l[1] # "\t" /\ Len(Strip(l)) >= 3 /\ AllIn(Strip(l), {"-"})

\* [=-]+[ ]*  on a line
IsUnderline(l) ==
  l # <<>> /\ l[1] \notin {" ", "\t"} /\ Strip(l) # <<>> /\ AllIn(Strip(l), {"=", "-"})

IsHashHeader(l) == l # <<>> /\ l[1] = "#"

RECURSIVE HashRun(_)
HashRun(l) == IF l # <<>> /\ l[1] = "#" THEN 1 + HashRun(Tail(l)) ELSE 0

Tag(name) == <<"<">> \o name \o <<">">>
EndTag(name) == <<"<", "/">> \o name \o <<">">>
Element(name, text) == Tag(name) \o text \o EndTag(name)
HLevel(n) == <<"h", Alphabet[Ord("0") + n]>>
Header(l, n) == Element(HLevel(n), Strip(From(l, n)))
Paragraph(lines) ==
  Element(<<"p">>, Join(Trimmed(lines), <<"<", "b", "r", " ", "/", ">", "\n">>))

\* The number of lines of the paragraph that starts at lines[1].
RECURSIVE ParaRun(_)
ParaRun(lines) ==
  IF lines = <<>> \/ IsBlank(lines[1]) \/ IsHashHeader(lines[1]) \/ IsRule(lines[1])
  THEN 0
  ELSE 1 + ParaRun(Tail(lines))

RECURSIVE Blocks(_)
\* The HTML of each block, lines[1] being the first line of a block.
Blocks(lines) ==
  IF lines = <<>> THEN <<>>
  ELSE IF IsBlank(lines[1]) THEN Blocks(Tail(lines))
  ELSE IF IsHashHeader(lines[1])
  THEN <<Header(lines[1], IF HashRun(lines[1]) > 6 THEN 6 ELSE HashRun(lines[1]))>>
       \o Blocks(Tail(lines))
  ELSE IF Len(lines) >= 2 /\ IsUnderline(lines[2])
  THEN <<Element(HLevel(IF lines[2][1] = "=" THEN 1 ELSE 2), Strip(lines[1]))>>
       \o Blocks(Tail(Tail(lines)))
  ELSE IF IsRule(lines[1])
  THEN <<<<"<", "h", "r", " ", "/", ">">>>> \o Blocks(Tail(lines))
  ELSE <<Paragraph(SubSeq(lines, 1, ParaRun(lines)))>>
       \o Blocks(SubSeq(lines, ParaRun(lines) + 1, Len(lines)))

\* markdown.markdown(text, extensions, extension_configs)
markdown(text) == Join(Blocks(SplitAt(text, "\n")), <<"\n">>)

(***************************************************************************)
(* Jinja2 templates.  A compiled template is a sequence of parts: a        *)
(* literal (kept as one element of the output), {{ name }} (with or        *)
(* without |default), the loop over meta_tags, and an expression whose     *)
(* evaluation raises.                                                      *)
(***************************************************************************)
Lit(a) == [p |-> "lit", a |-> a, name |-> <<>>, dflt |-> <<>>]
Var(name) == [p |-> "var", a |-> "", name |-> name, dflt |-> <<>>]
VarDefault(name, d) == [p |-> "default", a |-> "", name |-> name, dflt |-> d]
ForMetaTags == [p |-> "for", a |-> "", name |-> K_meta_tags, dflt |-> <<>>]
Failing == [p |-> "fail", a |-> "", name |-> <<>>, dflt |-> <<>>]

DEFAULT_TEMPLATE ==
  << Lit("<!DOCTYPE html>\n<html>\n<head>\n    <meta charset=\"utf-8\">\n    <meta name=\"viewport\" content=\"width=device-width, initial-scale=1.0\">\n    <title>"),
     VarDefault(K_title, <<"D", "o", "c", "u", "m", "e", "n", "t">>),
     Lit("</title>\n    "),
     ForMetaTags,
     Lit("\n</head>\n<body>\n"),
     Var(K_content),
     Lit("\n</body>\n</html>") >>

\* {% for meta_tag in meta_tags %} {{ meta_tag }} {% endfor %}
ForEach(xs) ==
  Concat([i \in 1..Len(xs) |-> <<"\n    ">> \o str(xs[i]) \o <<"\n    ">>])

\* template.render(**context): the output of one part
RenderPart(part, context) ==
  CASE part.p = "lit" -> <<part.a>>
    [] part.p = "var" ->
         IF HasKey(context, PyStr(part.name))
         THEN str(Get(context, PyStr(part.name))) ELSE <<>>
    [] part.p = "default" ->
         IF HasKey(context, PyStr(part.name))
         THEN str(Get(context, PyStr(part.name))) ELSE part.dflt
    [] part.p = "for" ->
         IF HasKey(context, PyStr(part.name)) /\ Get(context, PyStr(part.name)).t = "list"
         THEN ForEach(Get(context, PyStr(part.name)).v)
         ELSE <<>>
    [] OTHER -> <<>>

\* The exception template.render(**context) raises, "" when it raises none.
RenderExc(template, context) ==
  IF \E i \in 1..Len(context) : context[i].k.t # "str" THEN "TypeError"
  ELSE IF \E i \in 1..Len(template) : template[i].p = "fail" THEN "ZeroDivisionError"
  ELSE ""

render(template, context) ==
  Concat([i \in 1..Len(template) |-> RenderPart(template[i], context)])

(***************************************************************************)
(* The template file process_file hands to convert_md_to_html.             *)
(***************************************************************************)
TemplateFile(given, exists, readable, compiles, parts) ==
  [given |-> given, exists |-> exists, readable |-> readable,
   compiles |-> compiles, parts |-> parts]

T_none == TemplateFile(FALSE, FALSE, FALSE, FALSE, <<>>)
T_missing == TemplateFile(TRUE, FALSE, FALSE, FALSE, <<>>)
T_unreadable == TemplateFile(TRUE, TRUE, FALSE, FALSE, <<>>)
T_syntax == TemplateFile(TRUE, TRUE, TRUE, FALSE, <<>>)
T_raises == TemplateFile(TRUE, TRUE, TRUE, TRUE, <<Lit("<p>"), Failing, Lit("</p>")>>)
T_custom ==
  TemplateFile(TRUE, TRUE, TRUE, TRUE,
               <<Lit("<article>"), Var(K_content), Lit("</article>")>>)
TemplateFiles == {T_none, T_missing, T_unreadable, T_syntax, T_raises, T_custom}

(***************************************************************************)
(* The template resolver of the specification,                             *)
(*   select(document_path, available_template_ids, metadata, input_root).  *)
(* A directory is the sequence of the names on its path from the file      *)
(* system root, a document [dir, stem], an identifier the sentinel or the  *)
(* path [dir, stem] of a template file.                                    *)
(***************************************************************************)
DEFAULT == [sentinel |-> TRUE, dir |-> <<>>, stem |-> <<>>]
TemplateId(dir, stem) == [sentinel |-> FALSE, dir |-> dir, stem |-> stem]

\* The identifier as a string: "DEFAULT" or the absolute path of the file.
IdText(id) ==
  IF id.sentinel THEN <<"D", "E", "F", "A", "U", "L", "T">>
  ELSE Concat([i \in 1..Len(id.dir) |-> <<"/">> \o id.dir[i]])
       \o <<"/">> \o id.stem \o <<".", "j", "i", "n", "j", "a">>

K_template == <<"t", "e", "m", "p", "l", "a", "t", "e">>

\* Step 1, with the template value compared with the stem for equality.
OverrideStemMatches(ids, meta) ==
  IF meta.t = "dict" /\ HasKey(meta.v, PyStr(K_template))
  THEN {i \in 1..Len(ids) : ~ids[i].sentinel
                            /\ Get(meta.v, PyStr(K_template)).v = ids[i].stem}
  ELSE {}

\* Step 1: the identifiers that contain the metadata's template value.
OverrideMatches(ids, meta) ==
  IF meta.t = "dict" /\ HasKey(meta.v, PyStr(K_template))
  THEN {i \in 1..Len(ids) : IsSubstring(Get(meta.v, PyStr(K_template)).v, IdText(ids[i]))}
  ELSE {}

\* Step 2, with the parent directory left out of the comparison.
SameStemMatches(ids, docpath) ==
  {i \in 1..Len(ids) : ~ids[i].sentinel /\ ids[i].stem = docpath.stem}

\* Step 2, with a stem that only has to contain the document's stem.
ContainedNameMatches(ids, docpath) ==
  {i \in 1..Len(ids) : /\ ~ids[i].sentinel
                       /\ IsSubstring(docpath.stem, ids[i].stem)
                       /\ ids[i].dir = docpath.dir}

\* Step 2: the templates with the document's stem in the document's directory.
SameNameMatches(ids, docpath) ==
  {i \in 1..Len(ids) : /\ ~ids[i].sentinel
                       /\ ids[i].stem = docpath.stem
                       /\ ids[i].dir = docpath.dir}

\* Step 3: the templates whose stem is the name of the directory.
DirectoryMatches(ids, dir) ==
  {i \in 1..Len(ids) : ~ids[i].sentinel /\ ids[i].stem = dir[Len(dir)]}

NoRoot == [given |-> FALSE, dir |-> <<>>]
Root(dir) == [given |-> TRUE, dir |-> dir]
IsPrefix(p, q) == Len(p) <= Len(q) /\ SubSeq(q, 1, Len(p)) = p
\* The walk going on up to the file system root, whatever input_root is.
WalkableToTop(dir, root) == dir # <<>>

\* The walk goes on: the directory has a name and is under input_root.
Walkable(dir, root) == dir # <<>> /\ (root.given => IsPrefix(root.dir, dir))
\* A step of the walk that stays in the directory it is in.
SameDirectory(dir) == dir
Parent(dir) == SubSeq(dir, 1, Len(dir) - 1)

\* The directories the walk of step 3 looks at that have a template: the
\* lengths of their paths.
Hits(ids, dir, root) ==
  {k \in 1..Len(dir) : /\ \A j \in k..Len(dir) : Walkable(SubSeq(dir, 1, j), root)
                       /\ DirectoryMatches(ids, SubSeq(dir, 1, k)) # {}}

\* select as a function of its arguments
select(docpath, ids, meta, root) ==
  IF OverrideMatches(ids, meta) # {} THEN ids[Min(OverrideMatches(ids, meta))]
  ELSE IF SameNameMatches(ids, docpath) # {}
  THEN ids[Min(SameNameMatches(ids, docpath))]
  ELSE IF Hits(ids, docpath.dir, root) # {}
  THEN ids[Min(DirectoryMatches(ids, SubSeq(docpath.dir, 1,
                                           Max(Hits(ids, docpath.dir, root)))))]
  ELSE DEFAULT

\* The arguments the model calls select with.
Names == {<<"a">>, <<"b">>}
Dirs(n) == UNION {[1..k -> Names] : k \in 0..n}
Documents == {[dir |-> d, stem |-> st] : d \in Dirs(MaxDepth), st \in {<<"a">>, <<"a", "b">>}}
TemplateIds ==
  {TemplateId(d, st) : d \in {<<<<"a">>>>, <<<<"t">>>>},
                       st \in {<<"a">>, <<"b">>, <<"a", "b">>}}
\* The template files in every order, the sentinel after them.
IdLists ==
  UNION { { Append(l, DEFAULT) : l \in {m \in [1..n -> TemplateIds] :
                                          \A i, j \in 1..n : i # j => m[i] # m[j]} }
          : n \in 0..MaxTemplates }
Metadatas ==
  { None, PyDict(<<Item(PyStr(K_title), PyStr(<<"T">>))>>) }
  \cup { PyDict(<<Item(PyStr(K_template), PyStr(v))>>) :
           v \in {<<"b">>, <<"t", "/", "a">>, <<"z">>} }
Roots(docpath) ==
  {NoRoot, Root(<<>>), Root(docpath.dir), Root(Parent(docpath.dir)), Root(<<<<"b">>>>)}

(***************************************************************************)
(* State: one call of process_file on a Markdown file whose output does    *)
(* not exist yet, from the moment the file has been read.                  *)
(***************************************************************************)
VARIABLES
  doc,            \* the parts md_content was assembled from
  md_content,     \* the text read from the input file
  template_path,  \* the template file given, as the file system holds it
  pc,             \* the position in process_file / convert_md_to_html
  frontmatter,    \* the metadata, None when absent
  content_without_frontmatter,
  html_body,
  context,        \* the render context: the items of a dict
  alias,          \* the index of the frontmatter item whose value is the very
                  \* object context['meta_tags'] holds; 0 when there is none
  idx,            \* the loop index over frontmatter.items()
  template,       \* the compiled template: [id, parts]
  html_content,
  exc,            \* the exception propagating, "" when there is none
  log,            \* the records logged at warning level and above, and info
  ret,            \* what process_file returned
  output,         \* the output file: [exists, text]
  document_path,  \* select's arguments
  available_template_ids,
  metadata,
  input_root,
  step,           \* the step of select that runs next
  directory,      \* the directory the walk of step 3 is at
  template_id,    \* what select returned
  jinja_files,    \* load_templates' argument: the template files found
  templates,      \* the registry load_templates builds: the items of a dict
  file_index,     \* the file load_templates is at
  loading,        \* the position in load_templates
  placement,      \* where output_dir lies with respect to input_dir
  is_relative_to, \* Path has the method is_relative_to (Python 3.9 and later)
  items,          \* what input_dir holds: the files and directories under it
  copy_non_md,    \* process_directory's arguments
  mode,
  template_arg,
  out,            \* the files under output_dir: path -> [exists, text]
  out_dirs,       \* the directories that exist at or under output_dir
  pending,        \* the items rglob has not yielded yet
  current,        \* the item process_file is at, 0 when there is none
  success,
  file_count,
  dpc,            \* the position in process_directory
  raised,         \* the exception process_directory raised, "" when none
  response,       \* what input() returned in the last call of process_file
  converted,      \* what convert_md_to_html gave for each item so far
  results         \* what process_file returned for each item so far

pvars == <<doc, md_content, template_path, pc, frontmatter,
           content_without_frontmatter, html_body, context, alias, idx, template,
           html_content, exc, log, ret, output>>
svars == <<document_path, available_template_ids, metadata, input_root, step,
           directory, template_id>>
lvars == <<jinja_files, templates, file_index, loading>>
\* The arguments of process_directory and what it runs on.
run_args == <<placement, is_relative_to, items, copy_non_md, mode, template_arg>>
dvars == <<run_args, out, out_dirs, pending, current, success, file_count, dpc,
           raised, response, converted, results>>
vars == <<pvars, svars, lvars, dvars>>

Record(level, msg) == [level |-> level, msg |-> msg]
NoTemplate == [id |-> "", parts |-> <<>>]
NoFile == [exists |-> FALSE, text |-> <<>>]

\* No call of select is under way.
SelectIdle ==
  /\ document_path = [dir |-> <<>>, stem |-> <<>>]
  /\ available_template_ids = <<DEFAULT>>
  /\ metadata = None
  /\ input_root = NoRoot
  /\ step = "idle"
  /\ directory = <<>>
  /\ template_id = DEFAULT

\* No call of load_templates is under way.
RegistryIdle ==
  /\ jinja_files = <<>>
  /\ templates = <<>>
  /\ file_index = 0
  /\ loading = "idle"

\* No call of process_directory is under way.
DirectoryIdle ==
  /\ placement = "outside"
  /\ is_relative_to = TRUE
  /\ items = <<>>
  /\ copy_non_md = TRUE
  /\ mode = "overwrite"
  /\ template_arg = T_none
  /\ out = <<>>
  /\ out_dirs = {}
  /\ pending = {}
  /\ current = 0
  /\ success = TRUE
  /\ file_count = 0
  /\ dpc = "idle"
  /\ raised = ""
  /\ response = [asked |-> FALSE, text |-> <<>>]
  /\ converted = <<>>
  /\ results = <<>>

Init ==
  /\ SelectIdle
  /\ RegistryIdle
  /\ DirectoryIdle
  /\ doc \in Docs
  /\ md_content = Assemble(doc)
  /\ template_path \in (IF doc.lead = <<>> /\ doc.pad1 = <<>> /\ doc.pad2 = <<>>
                           /\ doc.shape = "block" /\ doc.rest = B_heading
                        THEN TemplateFiles ELSE {T_none})
  /\ pc = "convert"
  /\ frontmatter = None
  /\ content_without_frontmatter = <<>>
  /\ html_body = <<>>
  /\ context = <<>>
  /\ alias = 0
  /\ idx = 0
  /\ template = NoTemplate
  /\ html_content = <<>>
  /\ exc = ""
  /\ log = <<>>
  /\ ret = "none"
  /\ output = NoFile

Extracted(e, f, c, l) == [exc |-> e, frontmatter |-> f, content |-> c, log |-> l]

\* Lines 92-103: the block found, its content loaded
Loaded(text, match, loaded) ==
  IF loaded.exc = "" THEN Extracted("", loaded.val, From(text, match.end), <<>>)
  ELSE IF loaded.exc = "YAMLError"
  THEN Extracted("", None, text,
                 <<Record("warning", "Failed to parse YAML frontmatter")>>)
  ELSE Extracted(loaded.exc, None, <<>>, <<>>)

\* Lines 86-107
Matched(text, match) ==
  IF match.matched THEN Loaded(text, match, safe_load(match.group1))
  ELSE Extracted("", None, text, <<>>)

\* extract_yaml_frontmatter(md_content): [exc, frontmatter, content, log]
extract_yaml_frontmatter(text) == Matched(text, frontmatter_pattern(text))

ExtractOf(r) ==
  /\ exc' = r.exc
  /\ frontmatter' = r.frontmatter
  /\ content_without_frontmatter' = r.content
  /\ log' = log \o r.log
  /\ pc' = IF r.exc = "" THEN "markdown" ELSE "except"

\* convert_md_to_html, line 123
Extract ==
  /\ pc = "convert"
  /\ ExtractOf(extract_yaml_frontmatter(md_content))
  /\ UNCHANGED <<svars, lvars, dvars>>
  /\ UNCHANGED <<doc, md_content, template_path, html_body, context, alias, idx,
                 template, html_content, ret, output>>

\* convert_md_to_html, lines 145-149
Markdown ==
  /\ pc = "markdown"
  /\ html_body' = markdown(content_without_frontmatter)
  /\ pc' = "context"
  /\ UNCHANGED <<svars, lvars, dvars>>
  /\ UNCHANGED <<doc, md_content, template_path, frontmatter,
                 content_without_frontmatter, context, alias, idx, template,
                 html_content, exc, log, ret, output>>

\* The exception of context.update(x) followed by x.items() for an x that is
\* no dict: a sequence of pairs updates the dict and has no items().
Pairish(e) == e.t \in {"str", "list"} /\ Len(e.v) = 2
Sized(e) == e.t \in {"str", "list", "dict"}
NotPairs(xs) == {i \in 1..Len(xs) : ~Pairish(xs[i])}
UpdateExc(x) ==
  IF x.t \in {"int", "date"} THEN "TypeError"
  ELSE IF NotPairs(x.v) = {} THEN "AttributeError"
  ELSE IF Sized(x.v[Min(NotPairs(x.v))]) THEN "ValueError" ELSE "TypeError"

\* The characters of a str, as iterating over it gives them.
Chars(x) == PyList([i \in 1..Len(x.v) |-> PyStr(<<x.v[i]>>)])

\* A render context whose meta_tags list is the one of the call before.
CarriedContext ==
  <<Item(PyStr(K_content), PyStr(html_body)),
    Item(PyStr(K_meta_tags),
         IF HasKey(context, PyStr(K_meta_tags))
            /\ Get(context, PyStr(K_meta_tags)).t = "list"
         THEN Get(context, PyStr(K_meta_tags)) ELSE PyList(<<>>))>>

BaseContext == <<Item(PyStr(K_content), PyStr(html_body)),
                 Item(PyStr(K_meta_tags), PyList(<<>>))>>

\* convert_md_to_html, lines 153-162, and the start of the loop of line 165
BuildContext ==
  /\ pc = "context"
  /\ IF ~Truthy(frontmatter)
     THEN /\ context' = BaseContext
          /\ pc' = "load"
          /\ UNCHANGED <<alias, idx, exc>>
     ELSE IF frontmatter.t = "dict"
     THEN /\ context' = DictUpdate(BaseContext, frontmatter.v)
          /\ alias' = IF HasKey(frontmatter.v, PyStr(K_meta_tags))
                      THEN KeyIndex(frontmatter.v, PyStr(K_meta_tags)) ELSE 0
          /\ idx' = 1
          /\ pc' = "meta"
          /\ UNCHANGED exc
     ELSE /\ exc' = UpdateExc(IF frontmatter.t = "str" THEN Chars(frontmatter)
                              ELSE frontmatter)
          /\ pc' = "except"
          /\ context' = BaseContext
          /\ UNCHANGED <<alias, idx>>
  /\ UNCHANGED <<svars, lvars, dvars>>
  /\ UNCHANGED <<doc, md_content, template_path, frontmatter,
                 content_without_frontmatter, html_body, template, html_content,
                 log, ret, output>>

MetaOpen == <<"<", "m", "e", "t", "a", " ", "n", "a", "m", "e", "=", "\"">>
MetaMid == <<"\"", " ", "c", "o", "n", "t", "e", "n", "t", "=", "\"">>
MetaClose == <<"\"", ">">>
Quot == <<"&", "q", "u", "o", "t", ";">>

\* Lines 167-173: the text of a metadata value.
value_text(value) ==
  IF value.t = "list"
  THEN Join([i \in 1..Len(value.v) |-> str(value.v[i])], CommaSpace)
  ELSE IF value.t = "dict" THEN dump(value)
  ELSE str(value)

\* str_value without the replacement of line 175.
str_value_raw(value) == value_text(value)

\* Line 175: the text of a metadata value in its meta tag.
str_value(value) == Replace(value_text(value), "\"", Quot)

\* A meta tag that names the key and leaves the value out.
meta_tag_of_key(key, value) == MetaOpen \o str(key) \o MetaClose

\* Line 176: the meta tag of a metadata item.
meta_tag(key, value) ==
  MetaOpen \o str(key) \o MetaMid \o str_value(value) \o MetaClose

\* context['meta_tags'].append(tag) on the list target
AppendTag(target, tag) ==
  IF target.t = "list"
  THEN /\ context' = DictSet(context, PyStr(K_meta_tags), PyList(Append(target.v, tag)))
       /\ frontmatter' =
            IF alias = 0 THEN frontmatter
            ELSE PyDict([frontmatter.v EXCEPT ![alias].val = PyList(Append(target.v, tag))])
       /\ idx' = idx + 1
       /\ pc' = IF idx = Len(frontmatter.v) THEN "load" ELSE "meta"
       /\ UNCHANGED exc
  ELSE /\ exc' = "AttributeError"
       /\ pc' = "except"
       /\ UNCHANGED <<context, frontmatter, idx>>

\* convert_md_to_html, lines 165-176: one turn of the loop
MetaTag ==
  /\ pc = "meta"
  /\ idx <= Len(frontmatter.v)
  /\ AppendTag(Get(context, PyStr(K_meta_tags)),
               PyStr(meta_tag(frontmatter.v[idx].k, frontmatter.v[idx].val)))
  /\ UNCHANGED <<svars, lvars, dvars>>
  /\ UNCHANGED <<doc, md_content, template_path, content_without_frontmatter,
                 html_body, alias, template, html_content, log, ret, output>>

\* load_template(template_path): [template, log]
load_template(path) ==
  IF path.given /\ path.exists
  THEN IF path.readable /\ path.compiles
       THEN [template |-> [id |-> "custom", parts |-> path.parts], log |-> <<>>]
       ELSE [template |-> [id |-> "DEFAULT", parts |-> DEFAULT_TEMPLATE],
             log |-> <<Record("error", "Error loading template"),
                       Record("warning", "Falling back to default template")>>]
  ELSE [template |-> [id |-> "DEFAULT", parts |-> DEFAULT_TEMPLATE], log |-> <<>>]

\* convert_md_to_html, line 181
LoadTemplate ==
  /\ pc = "load"
  /\ template' = load_template(template_path).template
  /\ log' = log \o load_template(template_path).log
  /\ pc' = "render"
  /\ UNCHANGED <<svars, lvars, dvars>>
  /\ UNCHANGED <<doc, md_content, template_path, frontmatter,
                 content_without_frontmatter, html_body, context, alias, idx,
                 html_content, exc, ret, output>>

\* convert_md_to_html, lines 182-185
Render ==
  /\ pc = "render"
  /\ exc' = RenderExc(template.parts, context)
  /\ IF RenderExc(template.parts, context) = ""
     THEN html_content' = render(template.parts, context) /\ pc' = "write"
     ELSE html_content' = html_content /\ pc' = "except"
  /\ UNCHANGED <<svars, lvars, dvars>>
  /\ UNCHANGED <<doc, md_content, template_path, frontmatter,
                 content_without_frontmatter, html_body, context, alias, idx,
                 template, log, ret, output>>

\* The exception is logged and process_file returns True all the same.
ExceptReturnsTrue ==
  /\ pc = "except"
  /\ log' = Append(log, Record("error", "Error processing"))
  /\ ret' = "True"
  /\ pc' = "returned"
  /\ UNCHANGED <<svars, lvars, dvars>>
  /\ UNCHANGED <<doc, md_content, template_path, frontmatter,
                 content_without_frontmatter, html_body, context, alias, idx,
                 template, html_content, exc, output>>

\* process_file, lines 230-234
Write ==
  /\ pc = "write"
  /\ output' = [exists |-> TRUE, text |-> html_content]
  /\ log' = Append(log, Record("info", "Converted"))
  /\ ret' = "True"
  /\ pc' = "returned"
  /\ UNCHANGED <<svars, lvars, dvars>>
  /\ UNCHANGED <<doc, md_content, template_path, frontmatter,
                 content_without_frontmatter, html_body, context, alias, idx,
                 template, html_content, exc>>

\* process_file, lines 235-237
Except ==
  /\ pc = "except"
  /\ log' = Append(log, Record("error", "Error processing"))
  /\ ret' = "False"
  /\ pc' = "returned"
  /\ UNCHANGED <<svars, lvars, dvars>>
  /\ UNCHANGED <<doc, md_content, template_path, frontmatter,
                 content_without_frontmatter, html_body, context, alias, idx,
                 template, html_content, exc, output>>

Next ==
  \/ Extract
  \/ Markdown
  \/ BuildContext
  \/ MetaTag
  \/ LoadTemplate
  \/ Render
  \/ Write
  \/ Except

Spec == Init /\ [][Next]_vars

(***************************************************************************)
(* One call of select, step by step.                                       *)
(***************************************************************************)
\* No file is being processed.
FileIdle ==
  /\ doc = Doc("plain", <<>>, <<>>, Content(<<>>, <<>>), <<>>, <<>>, <<>>)
  /\ md_content = <<>>
  /\ template_path = T_none
  /\ pc = "idle"
  /\ frontmatter = None
  /\ content_without_frontmatter = <<>>
  /\ html_body = <<>>
  /\ context = <<>>
  /\ alias = 0
  /\ idx = 0
  /\ template = NoTemplate
  /\ html_content = <<>>
  /\ exc = ""
  /\ log = <<>>
  /\ ret = "none"
  /\ output = NoFile

SelectInit ==
  /\ FileIdle
  /\ RegistryIdle
  /\ DirectoryIdle
  /\ document_path \in Documents
  /\ available_template_ids \in IdLists
  /\ metadata \in Metadatas
  /\ input_root \in Roots(document_path)
  /\ step = "override"
  /\ directory = <<>>
  /\ template_id = DEFAULT

Return(id) ==
  /\ template_id' = id
  /\ step' = "done"
  /\ UNCHANGED directory

\* A miss of step 1 taken as the end of the resolution.
OverrideMissToDefault == "fallback"

\* The step after a miss of step 1: a soft miss, step 2 comes next.
OverrideMiss == "same_name"

\* Step 1: the explicit override; no match goes on to step 2.
Override ==
  /\ step = "override"
  /\ IF OverrideMatches(available_template_ids, metadata) # {}
     THEN Return(available_template_ids[Min(OverrideMatches(available_template_ids,
                                                            metadata))])
     ELSE step' = OverrideMiss /\ UNCHANGED <<directory, template_id>>
  /\ UNCHANGED <<document_path, available_template_ids, metadata, input_root>>
  /\ UNCHANGED <<pvars, lvars, dvars>>

\* Step 2: the co-located template of the same name; else the walk starts at
\* the document's directory.
SameName ==
  /\ step = "same_name"
  /\ IF SameNameMatches(available_template_ids, document_path) # {}
     THEN Return(available_template_ids[Min(SameNameMatches(available_template_ids,
                                                            document_path))])
     ELSE /\ step' = "walk"
          /\ directory' = document_path.dir
          /\ UNCHANGED template_id
  /\ UNCHANGED <<document_path, available_template_ids, metadata, input_root>>
  /\ UNCHANGED <<pvars, lvars, dvars>>

\* Step 3: one directory of the upward walk.
Walk ==
  /\ step = "walk"
  /\ IF ~Walkable(directory, input_root)
     THEN step' = "fallback" /\ UNCHANGED <<directory, template_id>>
     ELSE IF DirectoryMatches(available_template_ids, directory) # {}
     THEN Return(available_template_ids[Min(DirectoryMatches(available_template_ids,
                                                             directory))])
     ELSE /\ directory' = Parent(directory)
          /\ UNCHANGED <<step, template_id>>
  /\ UNCHANGED <<document_path, available_template_ids, metadata, input_root>>
  /\ UNCHANGED <<pvars, lvars, dvars>>

\* Step 4: the sentinel.
Fallback ==
  /\ step = "fallback"
  /\ Return(DEFAULT)
  /\ UNCHANGED <<document_path, available_template_ids, metadata, input_root>>
  /\ UNCHANGED <<pvars, lvars, dvars>>

SelectNext ==
  \/ Override
  \/ SameName
  \/ Walk
  \/ Fallback

SpecSelect == SelectInit /\ [][SelectNext]_vars

\* select is one synchronous call: each of its steps is taken once it can be.
SpecSelectFair == SelectInit /\ [][SelectNext]_vars /\ WF_vars(SelectNext)

(***************************************************************************)
(* One call of load_templates, file by file.                               *)
(***************************************************************************)
\* The template files found, each with what the file system holds for it.
JinjaFile(id, file) == [id |-> id, file |-> file]
JinjaFileLists ==
  UNION { {l \in [1..n -> {JinjaFile(id, f) :
                             id \in TemplateIds,
                             f \in TemplateFiles \ {T_none}}] :
             \A i, j \in 1..n : i # j => l[i].id # l[j].id}
          : n \in 0..MaxTemplates }

\* Reading the file and compiling its text both succeed.
Compiles(file) == file.exists /\ file.readable /\ file.compiles
Compiled(file) == [id |-> "custom", parts |-> file.parts]

\* A file that fails ends the loop over the files.
PastLastFile(i, n) == n + 1
\* A file that fails is left out and the loop goes on with the next one.
AfterFailure(i, n) == i + 1

LoadInit ==
  /\ FileIdle
  /\ SelectIdle
  /\ DirectoryIdle
  /\ jinja_files \in JinjaFileLists
  /\ templates = <<>>
  /\ file_index = 1
  /\ loading = "files"

\* One file: templates[str(file)] = Template(text), unless that raises.
LoadFile ==
  /\ loading = "files"
  /\ file_index <= Len(jinja_files)
  /\ IF Compiles(jinja_files[file_index].file)
     THEN /\ templates' = DictSet(templates, IdText(jinja_files[file_index].id),
                                  Compiled(jinja_files[file_index].file))
          /\ file_index' = file_index + 1
     ELSE /\ file_index' = AfterFailure(file_index, Len(jinja_files))
          /\ UNCHANGED templates
  /\ UNCHANGED <<jinja_files, loading>>
  /\ UNCHANGED <<pvars, svars, dvars>>

\* After the files: templates['DEFAULT'] = Template(DEFAULT_TEMPLATE).
LoadDefault ==
  /\ loading = "files"
  /\ file_index > Len(jinja_files)
  /\ templates' = DictSet(templates, IdText(DEFAULT),
                          [id |-> "DEFAULT", parts |-> DEFAULT_TEMPLATE])
  /\ loading' = "done"
  /\ UNCHANGED <<jinja_files, file_index>>
  /\ UNCHANGED <<pvars, svars, dvars>>

LoadNext ==
  \/ LoadFile
  \/ LoadDefault

SpecLoad == LoadInit /\ [][LoadNext]_vars

(***************************************************************************)
(* One call of process_directory: process_file on every file that          *)
(* input_path.rglob('*') yields, in the order it yields them.              *)
(***************************************************************************)
UpperCase == <<"A", "B", "C", "D", "E", "F", "G", "H", "I", "J", "K", "L", "M",
               "N", "O", "P", "Q", "R", "S", "T", "U", "V", "W", "X", "Y", "Z">>
LowerCase == <<"a", "b", "c", "d", "e", "f", "g", "h", "i", "j", "k", "l", "m",
               "n", "o", "p", "q", "r", "s", "t", "u", "v", "w", "x", "y", "z">>
LowerChar(c) ==
  IF \E i \in 1..Len(UpperCase) : UpperCase[i] = c
  THEN LowerCase[CHOOSE i \in 1..Len(UpperCase) : UpperCase[i] = c]
  ELSE c
\* str.lower()
lower(x) == [i \in 1..Len(x) |-> LowerChar(x[i])]

\* Path.suffix: the name from its last dot on, when that dot is neither the
\* first nor the last character.
DotsOf(name) == {i \in 1..Len(name) : name[i] = "."}
suffix(name) ==
  IF DotsOf(name) # {} /\ 1 < Max(DotsOf(name)) /\ Max(DotsOf(name)) < Len(name)
  THEN SubSeq(name, Max(DotsOf(name)), Len(name))
  ELSE <<>>
\* Path.with_suffix(s), on the name
with_suffix(name, x) == SubSeq(name, 1, Len(name) - Len(suffix(name))) \o x

DotHtml == <<".", "h", "t", "m", "l">>
\* input_path.suffix.lower() in ['.md', '.markdown']
IsMarkdown(name) ==
  lower(suffix(name)) \in {<<".", "m", "d">>,
                          <<".", "m", "a", "r", "k", "d", "o", "w", "n">>}

\* What rglob yields: a file or a directory under input_dir, at dir/name;
\* readable tells whether open() on it for reading succeeds.
InputItem(dir, name, is_file, readable, d, text) ==
  [dir |-> dir, name |-> name, is_file |-> is_file, readable |-> readable,
   doc |-> d, text |-> text]
NoDoc == Doc("plain", <<>>, <<>>, Content(<<>>, <<>>), <<>>, <<>>, <<>>)

\* The documents of the tree: title: T over a heading, and a block whose
\* content is a scalar, which convert_md_to_html fails on.
D_title == Doc("block", <<>>, <<>>, TitleContent, <<>>, <<"\n">>, B_heading)
D_scalar == Doc("block", <<>>, <<>>, Content(C_scalar, <<>>), <<>>, <<>>, B_heading)
MarkdownFile(dir, name, d) == InputItem(dir, name, TRUE, TRUE, d, Assemble(d))
\* A Markdown file that cannot be opened.
LockedMarkdownFile(dir, name) == InputItem(dir, name, TRUE, FALSE, NoDoc, <<>>)
SubDirectory == InputItem(<<>>, <<"s">>, FALSE, TRUE, NoDoc, <<>>)
DataName == <<"a", ".", "t", "x", "t">>
DataFile == InputItem(<<>>, DataName, TRUE, TRUE, NoDoc, <<"d", "a", "t", "a">>)
LockedDataFile == InputItem(<<>>, DataName, TRUE, FALSE, NoDoc, <<>>)
JinjaName == <<"t", ".", "j", "i", "n", "j", "a">>
TemplateInput == InputItem(<<>>, JinjaName, TRUE, TRUE, NoDoc, <<"{", "{", "x", "}", "}">>)
Optional(S) == {<<>>} \cup {<<x>> : x \in S}

\* a.md, a.markdown, s/b.MD, and a.txt or t.jinja, each there or not.
Trees ==
  { a \o b \o (IF c = <<>> THEN <<>> ELSE <<SubDirectory>> \o c) \o d :
      a \in Optional({MarkdownFile(<<>>, <<"a", ".", "m", "d">>, D_title),
                      MarkdownFile(<<>>, <<"a", ".", "m", "d">>, D_scalar),
                      LockedMarkdownFile(<<>>, <<"a", ".", "m", "d">>)}),
      b \in Optional({MarkdownFile(<<>>, <<"a", ".", "m", "a", "r", "k", "d", "o",
                                         "w", "n">>, D_title)}),
      c \in Optional({MarkdownFile(<<<<"s">>>>, <<"b", ".", "M", "D">>, D_title)}),
      d \in Optional({DataFile, LockedDataFile, TemplateInput}) }

\* out_file = output_path / rel_path, and output_path.with_suffix('.html')
OutPath(dir, name) == [dir |-> dir, name |-> name]
Target(item) ==
  OutPath(item.dir, IF IsMarkdown(item.name) THEN with_suffix(item.name, DotHtml)
                    ELSE item.name)
OutPaths ==
  {OutPath(<<>>, <<"a">> \o DotHtml), OutPath(<<<<"s">>>>, <<"b">> \o DotHtml),
   OutPath(<<>>, DataName), OutPath(<<>>, JinjaName)}
OldFile == [exists |-> TRUE, text |-> <<"o", "l", "d">>]
NoOutputs == [q \in OutPaths |-> NoFile]
\* output_dir before the run: empty, or holding a.html
Outputs ==
  {NoOutputs,
   [q \in OutPaths |-> IF q = OutPath(<<>>, <<"a">> \o DotHtml) THEN OldFile ELSE NoFile]}

\* os.makedirs(output_path.parent, exist_ok=True)
Ancestors(dir) == {SubSeq(dir, 1, k) : k \in 0..Len(dir)}

\* Where the resolved output_dir lies: apart from input_dir ("outside"), the
\* same directory, inside input_dir, or the parent directory of input_dir,
\* input_dir being output_dir/s.
Placements == {"outside", "same", "inside", "parent"}
\* The output path is a path inside input_dir.
InsideInput(q) == placement = "parent" /\ q.dir # <<>> /\ q.dir[1] = SubDirectory.name

Modes == {"skip", "overwrite", "interactive"}
\* What input() returns at the prompt, and the value when it is not called.
Response(text) == [asked |-> TRUE, text |-> text]
NoResponse == [asked |-> FALSE, text |-> <<>>]
Responses == {Response(<<"Y">>), Response(<<"n">>), Response(<<"o">>), Response(<<"s">>)}
NotConverted == [done |-> FALSE, ok |-> FALSE, html |-> <<>>]

DirInit ==
  /\ FileIdle
  /\ SelectIdle
  /\ RegistryIdle
  /\ items \in Trees
  /\ \/ /\ placement = "outside"
        /\ is_relative_to = TRUE
        /\ template_arg = T_none
        /\ copy_non_md \in BOOLEAN
        /\ mode \in Modes
        /\ out \in Outputs
     \/ /\ placement \in Placements
        /\ is_relative_to \in BOOLEAN
        /\ template_arg \in {T_none, T_custom}
        /\ copy_non_md = TRUE
        /\ mode = "overwrite"
        /\ out = NoOutputs
  /\ out_dirs = IF placement = "parent" THEN Ancestors(<<SubDirectory.name>>)
                ELSE IF \E q \in OutPaths : out[q].exists THEN {<<>>} ELSE {}
  /\ pending = 1..Len(items)
  /\ current = 0
  /\ success = TRUE
  /\ file_count = 0
  /\ dpc = "validate"
  /\ raised = ""
  /\ response = NoResponse
  /\ converted = [i \in 1..Len(items) |-> NotConverted]
  /\ results = [i \in 1..Len(items) |-> "none"]

\* Lines 276-296: the exception the tests of the two directories raise, ""
\* when they raise none. Without Path.is_relative_to the handler of
\* AttributeError evaluates input_path + os.sep, a Path plus a str.
ValidateExc ==
  IF placement = "same" THEN "ValueError"
  ELSE IF ~is_relative_to THEN "TypeError"
  ELSE IF placement = "inside" THEN "ValueError"
  ELSE ""

\* process_directory, lines 276-296
Validate ==
  /\ dpc = "validate"
  /\ raised' = ValidateExc
  /\ dpc' = IF ValidateExc = "" THEN "walk" ELSE "raised"
  /\ UNCHANGED <<run_args, out, out_dirs, pending, current, success, file_count,
                 response, converted, results>>
  /\ UNCHANGED <<pvars, svars, lvars>>

\* rglob yields a directory before what it holds.
Yielded(i) ==
  \A j \in pending :
    items[j].is_file \/ ~IsPrefix(items[j].dir \o <<items[j].name>>, items[i].dir)

\* Line 300: the next item of rglob
Enter(i) ==
  /\ dpc = "walk"
  /\ pc = "idle"
  /\ Yielded(i)
  /\ pending' = pending \ {i}
  /\ current' = i
  /\ UNCHANGED <<run_args, out, success, raised, converted, results>>
  /\ UNCHANGED <<svars, lvars>>

\* Line 301: not a file
VisitDirectory ==
  \E i \in pending :
    /\ Enter(i)
    /\ ~items[i].is_file
    /\ UNCHANGED <<out_dirs, file_count, dpc, response>>
    /\ UNCHANGED pvars

\* input() is called for the file: its output exists and the mode is
\* interactive (lines 213-218 and 240-245).
Asked(i) ==
  /\ items[i].is_file
  /\ IsMarkdown(items[i].name) \/ copy_non_md
  /\ out[Target(items[i])].exists
  /\ mode = "interactive"
Answers(i) == IF Asked(i) THEN Responses ELSE {NoResponse}

\* Lines 301-310 and process_file, lines 198-205: the call of process_file
EnterFile(i, r) ==
  /\ Enter(i)
  /\ items[i].is_file
  /\ file_count' = file_count + 1
  /\ out_dirs' = out_dirs \cup Ancestors(items[i].dir)
  /\ response' = r
  /\ template_path' = template_arg
  /\ dpc' = "file"

\* The output exists and stays on the answer n only.
KeptOnNo(i, r) ==
  /\ out[Target(items[i])].exists
  /\ \/ mode = "skip"
     \/ mode = "interactive" /\ lower(r.text) = <<"n">>

\* The output exists and is not to be replaced.
Kept(i, r) ==
  /\ out[Target(items[i])].exists
  /\ \/ mode = "skip"
     \/ mode = "interactive" /\ lower(r.text) # <<"y">>

\* process_file returns without converting.
ReturnFrom(value, file, level, msg) ==
  /\ ret' = value
  /\ output' = file
  /\ log' = <<Record(level, msg)>>
  /\ exc' = ""
  /\ pc' = "returned"
  /\ UNCHANGED <<doc, md_content, frontmatter, content_without_frontmatter,
                 html_body, context, alias, idx, template, html_content>>

\* process_file, lines 213-222 and 240-248: the output is there and stays
SkipExisting ==
  \E i \in pending : \E r \in Answers(i) :
    /\ EnterFile(i, r)
    /\ IsMarkdown(items[i].name) \/ copy_non_md
    /\ Kept(i, r)
    /\ ReturnFrom("True", out[Target(items[i])], "info", "Skipped")

\* process_file, lines 208-228: a Markdown file is read and handed to
\* convert_md_to_html; open() raises for a file that cannot be read
StartConversion ==
  \E i \in pending : \E r \in Answers(i) :
    /\ EnterFile(i, r)
    /\ IsMarkdown(items[i].name)
    /\ ~Kept(i, r)
    /\ IF items[i].readable
       THEN /\ doc' = items[i].doc
            /\ md_content' = items[i].text
            /\ exc' = ""
            /\ pc' = "convert"
       ELSE /\ exc' = "OSError"
            /\ pc' = "except"
            /\ UNCHANGED <<doc, md_content>>
    /\ output' = out[Target(items[i])]
    /\ log' = <<>>
    /\ ret' = "none"
    /\ UNCHANGED <<frontmatter, content_without_frontmatter, html_body, context,
                   alias, idx, template, html_content>>

\* process_file, lines 238-256: another file is copied; shutil.copy2 raises
\* for a file that cannot be read
CopyFile ==
  \E i \in pending : \E r \in Answers(i) :
    /\ EnterFile(i, r)
    /\ ~IsMarkdown(items[i].name)
    /\ copy_non_md
    /\ ~Kept(i, r)
    /\ IF items[i].readable
       THEN ReturnFrom("True", [exists |-> TRUE, text |-> items[i].text], "info", "Copied")
       ELSE ReturnFrom("False", out[Target(items[i])], "error", "Error copying")

\* process_file, lines 257-259
SkipNonMarkdown ==
  \E i \in pending :
    /\ EnterFile(i, NoResponse)
    /\ ~IsMarkdown(items[i].name)
    /\ ~copy_non_md
    /\ ReturnFrom("True", out[Target(items[i])], "info", "Skipped non-markdown file")

\* convert_md_to_html has run in the call of process_file that returned.
Ran ==
  /\ IsMarkdown(items[current].name)
  /\ items[current].readable
  /\ log # <<>>
  /\ log[Len(log)].msg \in {"Converted", "Error processing"}

\* The result of the run is the result of the last call.
CollectLast ==
  /\ dpc = "file"
  /\ pc = "returned"
  /\ success' = (ret = "True")
  /\ out' = [out EXCEPT ![Target(items[current])] = output]
  /\ converted' =
       IF Ran
       THEN [converted EXCEPT ![current] =
               [done |-> TRUE, ok |-> ret = "True",
                html |-> IF ret = "True" THEN html_content ELSE <<>>]]
       ELSE converted
  /\ results' = [results EXCEPT ![current] = ret]
  /\ dpc' = "walk"
  /\ pc' = "idle"
  /\ UNCHANGED <<run_args, out_dirs, pending, current, file_count, raised, response>>
  /\ UNCHANGED <<doc, md_content, template_path, frontmatter,
                 content_without_frontmatter, html_body, context, alias, idx,
                 template, html_content, exc, log, ret, output>>
  /\ UNCHANGED <<svars, lvars>>

\* process_directory, lines 310-311: process_file has returned; the output
\* file it left is the file at the output path.
Collect ==
  /\ dpc = "file"
  /\ pc = "returned"
  /\ success' = (success /\ ret = "True")
  /\ out' = [out EXCEPT ![Target(items[current])] = output]
  /\ converted' =
       IF Ran
       THEN [converted EXCEPT ![current] =
               [done |-> TRUE, ok |-> ret = "True",
                html |-> IF ret = "True" THEN html_content ELSE <<>>]]
       ELSE converted
  /\ results' = [results EXCEPT ![current] = ret]
  /\ dpc' = "walk"
  /\ pc' = "idle"
  /\ UNCHANGED <<run_args, out_dirs, pending, current, file_count, raised, response>>
  /\ UNCHANGED <<doc, md_content, template_path, frontmatter,
                 content_without_frontmatter, html_body, context, alias, idx,
                 template, html_content, exc, log, ret, output>>
  /\ UNCHANGED <<svars, lvars>>

\* process_directory, lines 313-314: return success
Finish ==
  /\ dpc = "walk"
  /\ pending = {}
  /\ dpc' = "done"
  /\ UNCHANGED <<run_args, out, out_dirs, pending, current, success, file_count,
                 raised, response, converted, results>>
  /\ UNCHANGED <<pvars, svars, lvars>>

DirNext ==
  \/ Validate
  \/ VisitDirectory
  \/ SkipExisting
  \/ StartConversion
  \/ CopyFile
  \/ SkipNonMarkdown
  \/ Next
  \/ Collect
  \/ Finish

SpecDirectory == DirInit /\ [][DirNext]_vars

(***************************************************************************)
(* Properties of the extractor and of the renderer.                        *)
(***************************************************************************)
\* extract_yaml_frontmatter has returned and nothing has run after it.
ExtractReturned == pc = "markdown"
\* extract_yaml_frontmatter has raised: no render context was ever built.
ExtractRaised == pc \in {"except", "returned"} /\ context = <<>>

\* The metadata as extract_yaml_frontmatter returns it for the document.
Metadata == extract_yaml_frontmatter(md_content).frontmatter

\* The document starts with a block whose content is the text of a mapping.
WellFormedBlock == doc.shape = "block" /\ doc.lead = <<>> /\ doc.mapping # <<>>

\* The block up to its closing hyphens.
BlockHead ==
  IF doc.shape = "empty" THEN Dashes \o doc.pad1 \o <<"\n">> \o Dashes
  ELSE Dashes \o doc.pad1 \o <<"\n">> \o doc.content \o <<"\n">> \o Dashes

LineEnd(text, n) == Min({j \in (n + 1)..Len(text) : text[j] = "\n"})
\* The text after the line that holds the character after index n.
AfterLine(text, n) == From(text, LineEnd(text, n))

RECURSIVE SkipBlankLines(_)
\* The text without the white-space-only lines it starts with.
SkipBlankLines(text) ==
  IF Contains(text, "\n") /\ IsBlank(SubSeq(text, 1, LineEnd(text, 0)))
  THEN SkipBlankLines(AfterLine(text, 0))
  ELSE text

\* C1: for every document and every template, the pipeline raises no
\* exception (it returns an HTML string).
C1_PipelineTotal == exc = ""

\* The document starts with a delimited block whose content yaml.safe_load
\* does not load.
UnparsedBlock ==
  doc.shape = "block" /\ doc.lead = <<>> /\ safe_load(doc.content).exc # ""

\* C3: when the content of the leading block fails to parse, the extractor
\* returns absent metadata and the original text, nothing removed.
C3_FailedParseKeepsText ==
  (UnparsedBlock /\ pc # "convert") =>
    /\ ~ExtractRaised
    /\ content_without_frontmatter = md_content
    /\ (ExtractReturned => frontmatter = None)

\* C4, as the code has it: for a well-formed leading block the metadata is
\* the mapping of the block, and the body is the text after the closing
\* delimiter line without the white-space-only lines that directly follow it.
C4_BlockAndBlankLinesRemoved ==
  (WellFormedBlock /\ pc # "convert") =>
    /\ ~ExtractRaised
    /\ content_without_frontmatter =
         SkipBlankLines(AfterLine(md_content, Len(BlockHead)))
    /\ (ExtractReturned => frontmatter = PyDict(doc.mapping))

\* C4, as the claim has it: the body is the text after the closing delimiter
\* line, exactly the block removed.
C4_ExactlyBlockRemoved ==
  (WellFormedBlock /\ ExtractReturned) =>
    /\ frontmatter = PyDict(doc.mapping)
    /\ content_without_frontmatter = AfterLine(md_content, Len(BlockHead))

\* A block of two keys followed by a blank line has been extracted.
C4_Witness ==
  /\ ExtractReturned /\ WellFormedBlock
  /\ Len(doc.mapping) = 2 /\ frontmatter = PyDict(doc.mapping)
  /\ doc.gap = <<"\n">> /\ doc.rest = B_heading
  /\ content_without_frontmatter = B_heading

\* The text begins with a line of three hyphens and white space only.
BeginsWithDelimiterLine(text) ==
  /\ StartsWith(text, Dashes)
  /\ \E n \in 4..Len(text) :
       text[n] = "\n" /\ \A i \in 4..(n - 1) : text[i] \in {" ", "\t"}

\* C5: for a text that does not begin with a delimiter line the extractor
\* returns absent metadata and the text unchanged, also when a delimited
\* block appears later in the text.
C5_NoLeadingDelimiterUnchanged ==
  (~BeginsWithDelimiterLine(md_content) /\ pc # "convert") =>
    /\ ~ExtractRaised
    /\ frontmatter = None
    /\ content_without_frontmatter = md_content

\* A document whose block starts on its second line has been extracted.
C5_Witness ==
  /\ ExtractReturned
  /\ doc.shape = "block" /\ doc.lead = <<"x", "\n">> /\ doc.mapping # <<>>
  /\ frontmatter = None
  /\ content_without_frontmatter = md_content

\* The document starts with a block that holds no key.
EmptyBlock ==
  /\ doc.lead = <<>>
  /\ \/ doc.shape = "empty"
     \/ doc.shape = "block" /\ doc.content \in {C_nothing, C_null, C_emptydict}

\* C6: for a leading block that parses to an empty or null result, two
\* consecutive delimiter lines included, the extractor returns absent
\* metadata and a body that starts after the block.
C6_EmptyBlockStripped ==
  (EmptyBlock /\ ExtractReturned) =>
    /\ frontmatter = None
    /\ Len(content_without_frontmatter) < Len(md_content) - Len(BlockHead)
    /\ content_without_frontmatter =
         From(md_content, Len(md_content) - Len(content_without_frontmatter))

\* The meta tags of the items of a metadata value, in its order.
TagsOf(meta) ==
  IF meta.t = "dict"
  THEN [i \in 1..Len(meta.v) |-> PyStr(meta_tag(meta.v[i].k, meta.v[i].val))]
  ELSE <<>>

\* C7: the meta_tags handed to the template are the n tags of the n metadata
\* items in metadata order, whatever the keys are named, and the empty list
\* when the metadata is absent.
C7_OneTagPerKey ==
  pc = "render" => Get(context, PyStr(K_meta_tags)) = PyList(TagsOf(Metadata))

Last(xs) == xs[Len(xs)]

\* The VALUE of a generated tag whose KEY is key.
ValueIn(tag, key) ==
  SubSeq(tag, Len(MetaOpen) + Len(str(key)) + Len(MetaMid) + 1,
         Len(tag) - Len(MetaClose))

RECURSIVE Unescape(_)
\* s with every &quot; read back as a double quote
Unescape(s) ==
  IF s = <<>> THEN <<>>
  ELSE IF StartsWith(s, Quot) THEN <<"\"">> \o Unescape(From(s, Len(Quot)))
  ELSE <<s[1]>> \o Unescape(Tail(s))

ValueEscaped(tag, item) ==
  /\ StartsWith(tag, MetaOpen \o str(item.k) \o MetaMid)
  /\ ~Contains(ValueIn(tag, item.k), "\"")
  /\ IsSubstring(Quot, value_text(item.val))
       \/ Unescape(ValueIn(tag, item.k)) = value_text(item.val)

\* C8: the VALUE of the tag generated for a metadata item holds no double
\* quote: it is the text of the value with every double quote as &quot;.
C8_ValueHasNoQuote ==
  [][(pc = "meta" /\ pc' \in {"meta", "load"}) =>
       ValueEscaped(Last(Get(context', PyStr(K_meta_tags)).v).v, frontmatter.v[idx])]_vars

\* The tag of a nested mapping that holds a double quote has been generated.
C8_Witness ==
  /\ pc = "load" /\ idx > 1
  /\ Metadata.v[idx - 1].val.t = "dict"
  /\ Contains(value_text(Metadata.v[idx - 1].val), "\"")
  /\ IsSubstring(Quot, Last(Get(context, PyStr(K_meta_tags)).v).v)

\* C9: every top-level metadata key is handed to the template as a context
\* variable that holds its metadata value (so a key named content replaces
\* the HTML body).
C9_KeysPassedWithValues ==
  (pc = "render" /\ Metadata.t = "dict") =>
    \A i \in 1..Len(Metadata.v) :
      /\ HasKey(context, Metadata.v[i].k)
      /\ Get(context, Metadata.v[i].k) = Metadata.v[i].val

\* A template file was given and cannot be found, read, compiled or rendered.
BrokenTemplate ==
  /\ template_path.given
  /\ \/ ~template_path.exists
     \/ ~template_path.readable
     \/ ~template_path.compiles
     \/ \E i \in 1..Len(template_path.parts) : template_path.parts[i].p = "fail"

\* C10: with a broken template, for a document that is itself sound, the
\* failure is reported, the built-in template is used and the HTML output is
\* written.
C10_FallbackRendered ==
  (pc = "returned" /\ BrokenTemplate /\ WellFormedBlock
   /\ doc.content = TitleContent.text) =>
    /\ output.exists
    /\ template.id = "DEFAULT"
    /\ \E i \in 1..Len(log) : log[i].level \in {"error", "warning"}

\* No template file matches the document: none holds the template value of
\* the metadata in its path, none has the document's stem in the document's
\* directory, none is named after a directory between the document and
\* input_root.
C2_NothingMatches ==
  /\ \A i \in 1..Len(available_template_ids) :
       \/ available_template_ids[i].sentinel
       \/ /\ ~(/\ metadata.t = "dict"
               /\ HasKey(metadata.v, PyStr(K_template))
               /\ IsSubstring(Get(metadata.v, PyStr(K_template)).v,
                              IdText(available_template_ids[i])))
          /\ ~(/\ available_template_ids[i].stem = document_path.stem
               /\ available_template_ids[i].dir = document_path.dir)
          /\ \A k \in 1..Len(document_path.dir) :
               (input_root.given =>
                  IsPrefix(input_root.dir, SubSeq(document_path.dir, 1, k)))
               => available_template_ids[i].stem # document_path.dir[k]
  /\ ~(/\ metadata.t = "dict"
       /\ HasKey(metadata.v, PyStr(K_template))
       /\ IsSubstring(Get(metadata.v, PyStr(K_template)).v, IdText(DEFAULT)))

\* C2: select returns one of the available identifiers, the one its
\* arguments determine, and the sentinel when no template matches by
\* override, by co-located stem or by the name of a directory from the
\* document's directory up to input_root.
C2_SelectTotal ==
  step = "done" =>
    /\ \E i \in 1..Len(available_template_ids) : available_template_ids[i] = template_id
    /\ template_id = select(document_path, available_template_ids, metadata, input_root)
    /\ C2_NothingMatches => template_id = DEFAULT

\* select has fallen back to the sentinel although templates are available
\* and the metadata names one.
C2_Witness ==
  /\ step = "done"
  /\ template_id = DEFAULT
  /\ Len(available_template_ids) > 2
  /\ metadata.t = "dict" /\ HasKey(metadata.v, PyStr(K_template))
  /\ Len(document_path.dir) = 2
  /\ input_root = Root(<<>>)

\* The metadata has a template key.
HasOverride == metadata.t = "dict" /\ HasKey(metadata.v, PyStr(K_template))

\* The i-th available identifier contains the template value of the metadata.
Overrides(i) ==
  /\ HasOverride
  /\ IsSubstring(Get(metadata.v, PyStr(K_template)).v, IdText(available_template_ids[i]))

\* The i-th available identifier is a template file with the document's stem
\* in the document's directory.
CoLocated(i) ==
  /\ ~available_template_ids[i].sentinel
  /\ available_template_ids[i].stem = document_path.stem
  /\ available_template_ids[i].dir = document_path.dir

\* C11: when the template value of the metadata is a substring of some
\* available identifier, select returns the first such identifier in the
\* order of the identifiers, whatever co-located or directory-named template
\* exists.
C11_OverrideWinsFirstMatch ==
  (step = "done" /\ \E i \in 1..Len(available_template_ids) : Overrides(i)) =>
    \E i \in 1..Len(available_template_ids) :
      /\ Overrides(i)
      /\ \A j \in 1..(i - 1) : ~Overrides(j)
      /\ template_id = available_template_ids[i]

\* select has returned the identifier that holds the template value, passing
\* over a co-located template of the document that comes before it.
C11_Witness ==
  /\ step = "done"
  /\ Len(available_template_ids) = 3
  /\ CoLocated(1) /\ ~Overrides(1)
  /\ Overrides(2)
  /\ template_id = available_template_ids[2]

\* The k-th directory on the document's path is looked at by the walk and the
\* i-th available identifier is a template file named after it.
NamedAfterAncestor(i, k) ==
  /\ ~available_template_ids[i].sentinel
  /\ available_template_ids[i].stem = document_path.dir[k]
  /\ input_root.given => IsPrefix(input_root.dir, SubSeq(document_path.dir, 1, k))

NotTemplateKey(it) == it.k # PyStr(K_template)
\* The metadata without its template key.
Untemplated ==
  IF metadata.t = "dict" THEN PyDict(SelectSeq(metadata.v, NotTemplateKey)) ELSE metadata

\* C12: when the template value of the metadata is a substring of no
\* available identifier, select returns what it returns for the same
\* arguments without the template key: a co-located or directory-named
\* template when there is one, the sentinel only when there is none.
C12_OverrideMissIsSoft ==
  (step = "done" /\ HasOverride
   /\ \A i \in 1..Len(available_template_ids) : ~Overrides(i)) =>
    /\ template_id = select(document_path, available_template_ids, Untemplated, input_root)
    /\ template_id = select(document_path, available_template_ids, None, input_root)
    /\ template_id = DEFAULT <=>
         \A i \in 1..Len(available_template_ids) :
           /\ ~CoLocated(i)
           /\ \A k \in 1..Len(document_path.dir) : ~NamedAfterAncestor(i, k)

\* The template value matched nothing and select has returned a template
\* named after a directory of the document.
C12_Witness ==
  /\ step = "done"
  /\ HasOverride
  /\ \A i \in 1..Len(available_template_ids) : ~Overrides(i)
  /\ ~CoLocated(1)
  /\ \E k \in 1..Len(document_path.dir) : NamedAfterAncestor(1, k)
  /\ template_id = available_template_ids[1]

\* No available identifier contains a template value of the metadata.
NoOverrideMatch == \A i \in 1..Len(available_template_ids) : ~Overrides(i)

\* The index of template_id among the available identifiers.
Chosen(i) == available_template_ids[i] = template_id

\* C13: with no override match, a template with the document's stem
\* (equality) in the document's directory is returned, the first one in the
\* order of the identifiers, in preference to a template named after a
\* directory; without such a template nothing is returned for its stem alone:
\* the result is named after a directory of the walk or is the sentinel.
C13_CoLocatedBeforeDirectory ==
  (step = "done" /\ NoOverrideMatch) =>
    IF \E i \in 1..Len(available_template_ids) : CoLocated(i)
    THEN \E i \in 1..Len(available_template_ids) :
           /\ CoLocated(i)
           /\ \A j \in 1..(i - 1) : ~CoLocated(j)
           /\ Chosen(i)
    ELSE \/ template_id = DEFAULT
         \/ \E i \in 1..Len(available_template_ids) :
              /\ Chosen(i)
              /\ \E k \in 1..Len(document_path.dir) : NamedAfterAncestor(i, k)

\* select has returned the co-located template although a template named
\* after the document's directory comes before it.
C13_Witness ==
  /\ step = "done" /\ NoOverrideMatch
  /\ Len(available_template_ids) = 3
  /\ ~CoLocated(1)
  /\ \E k \in 1..Len(document_path.dir) : NamedAfterAncestor(1, k)
  /\ CoLocated(2)
  /\ Chosen(2)

NoCoLocated == \A i \in 1..Len(available_template_ids) : ~CoLocated(i)

\* C14: with no override match and no co-located match, select returns the
\* template named after the nearest directory, from the document's directory
\* up to and including input_root, that has one (the first such template in
\* the order of the identifiers); a directory above input_root is never
\* matched, and the sentinel is returned only when no directory on the path
\* has a template.
C14_NearestDirectoryTemplate ==
  (step = "done" /\ NoOverrideMatch /\ NoCoLocated) =>
    IF \E i \in 1..Len(available_template_ids) :
         \E k \in 1..Len(document_path.dir) : NamedAfterAncestor(i, k)
    THEN \E i \in 1..Len(available_template_ids) :
           \E k \in 1..Len(document_path.dir) :
             /\ Chosen(i)
             /\ NamedAfterAncestor(i, k)
             /\ \A j \in 1..(i - 1) : ~NamedAfterAncestor(j, k)
             /\ \A j \in 1..Len(available_template_ids) :
                  \A n \in (k + 1)..Len(document_path.dir) : ~NamedAfterAncestor(j, n)
    ELSE template_id = DEFAULT

\* select has returned the template of the document's own directory although
\* the template of the directory above it comes first among the identifiers.
C14_Witness ==
  /\ step = "done" /\ NoOverrideMatch /\ NoCoLocated
  /\ Len(document_path.dir) = 2
  /\ Len(available_template_ids) = 3
  /\ NamedAfterAncestor(1, 1)
  /\ NamedAfterAncestor(2, 2)
  /\ Chosen(2)

\* C15: the upward walk terminates for every document path and input_root,
\* an absent input_root and a document outside input_root included: every
\* step of the walk that goes on moves to the strictly shorter parent
\* directory (no directory is visited twice), the walk never goes past the
\* directory without a name, and select returns in the end.
C15_WalkTerminates ==
  /\ [][(step = "walk" /\ step' = "walk") =>
          /\ directory # <<>>
          /\ Len(directory') < Len(directory)
          /\ IsPrefix(directory', document_path.dir)]_vars
  /\ <>(step = "done")

\* select has returned the sentinel after a walk, with no input_root, from
\* the deepest document directory all the way up to the file system root.
C15_Witness ==
  /\ step = "done"
  /\ ~input_root.given
  /\ Len(document_path.dir) = MaxDepth
  /\ directory = <<>>
  /\ template_id = DEFAULT

\* select has returned the sentinel for a document outside input_root: the
\* walk stopped in the document's own directory.
C15_WitnessOutsideRoot ==
  /\ step = "done"
  /\ input_root.given
  /\ ~IsPrefix(input_root.dir, document_path.dir)
  /\ directory = document_path.dir
  /\ directory # <<>>
  /\ template_id = DEFAULT

\* C16: the registry load_templates returns always holds "DEFAULT", holds
\* every template file that compiles under its path string, with the
\* template compiled from that file, and holds no file that fails to load;
\* a failing file does not keep the files after it out.
C16_RegistryOfCompilingFiles ==
  loading = "done" =>
    /\ HasKey(templates, IdText(DEFAULT))
    /\ Get(templates, IdText(DEFAULT)).parts = DEFAULT_TEMPLATE
    /\ \A i \in 1..Len(jinja_files) :
         IF Compiles(jinja_files[i].file)
         THEN /\ HasKey(templates, IdText(jinja_files[i].id))
              /\ Get(templates, IdText(jinja_files[i].id)).parts
                   = jinja_files[i].file.parts
         ELSE ~HasKey(templates, IdText(jinja_files[i].id))
    /\ \A n \in 1..Len(templates) :
         \/ templates[n].k = IdText(DEFAULT)
         \/ \E i \in 1..Len(jinja_files) : templates[n].k = IdText(jinja_files[i].id)

\* load_templates has returned a registry of the second file and "DEFAULT",
\* the first file being one that does not compile.
C16_Witness ==
  /\ loading = "done"
  /\ Len(jinja_files) = 2
  /\ jinja_files[1].file = T_syntax
  /\ jinja_files[2].file = T_custom
  /\ Len(templates) = 2
  /\ HasKey(templates, IdText(jinja_files[2].id))
  /\ HasKey(templates, IdText(DEFAULT))

\* <meta name="title" content="T">
TitleMetaTag ==
  <<"<", "m", "e", "t", "a", " ", "n", "a", "m", "e", "=", "\"", "t", "i", "t",
    "l", "e", "\"", " ", "c", "o", "n", "t", "e", "n", "t", "=", "\"", "T", "\"",
    ">">>

\* The built-in template filled in with a title, the meta tags and a body.
BuiltInPage(title, tags, body) ==
  <<DEFAULT_TEMPLATE[1].a>> \o title \o <<DEFAULT_TEMPLATE[3].a>>
  \o Concat([i \in 1..Len(tags) |-> <<"\n    ">> \o tags[i] \o <<"\n    ">>])
  \o <<DEFAULT_TEMPLATE[5].a>> \o body \o <<DEFAULT_TEMPLATE[7].a>>

\* The document starts with a well-formed block that holds title: T only.
TitleBlock ==
  /\ doc.shape = "block" /\ doc.lead = <<>>
  /\ doc.content = TitleContent.text /\ doc.mapping = TitleContent.mapping

\* C18: a document that starts with a well-formed block holding title: T,
\* with no template given, is rendered with the built-in template: the title
\* is T, the one meta tag is <meta name="title" content="T">, and the body is
\* the HTML of the text after the block, the block itself left out (# Hi
\* gives <h1>Hi</h1>); a document without metadata gets the title Document.
C18_TitledDocumentRendered ==
  (pc \in {"write", "returned"} /\ exc = "" /\ template_path = T_none) =>
    /\ template.id = "DEFAULT"
    /\ TitleBlock =>
         /\ html_content =
              BuiltInPage(<<"T">>, <<TitleMetaTag>>,
                          markdown(AfterLine(md_content, Len(BlockHead))))
         /\ ~IsSubstring(doc.content, html_content)
         /\ (doc.rest = B_heading /\ doc.gap \in {<<>>, <<"\n">>}) =>
              IsSubstring(<<"<", "h", "1", ">", "H", "i", "<", "/", "h", "1", ">">>,
                          html_content)
    /\ frontmatter = None =>
         html_content =
           BuiltInPage(<<"D", "o", "c", "u", "m", "e", "n", "t">>, <<>>,
                       markdown(content_without_frontmatter))

\* The output written for ---\ntitle: T\n---\n\n# Hi\n with no template given.
C18_Witness ==
  /\ pc = "returned" /\ ret = "True" /\ template_path = T_none
  /\ md_content = Dashes \o <<"\n", "t", "i", "t", "l", "e", ":", " ", "T", "\n">>
                  \o Dashes \o <<"\n", "\n", "#", " ", "H", "i", "\n">>
  /\ output.exists
  /\ IsSubstring(TitleMetaTag, output.text)
  /\ IsSubstring(<<"<", "h", "1", ">", "H", "i", "<", "/", "h", "1", ">">>, output.text)

\* extract_yaml_frontmatter applied to the body it has just returned gives
\* absent metadata and that same body.
BodyIsFixed ==
  extract_yaml_frontmatter(content_without_frontmatter)
    = Extracted("", None, content_without_frontmatter, <<>>)

\* C19, as the claim has it: whatever body extract_yaml_frontmatter returns,
\* applying it to that body returns absent metadata and the body unchanged.
C19_ExtractIdempotent == ExtractReturned => BodyIsFixed

\* C19: applying extract_yaml_frontmatter to a body it returned gives absent
\* metadata and the body unchanged whenever that body does not itself begin
\* with a delimiter line.
C19_IdempotentOnBodyWithoutBlock ==
  (ExtractReturned /\ ~BeginsWithDelimiterLine(content_without_frontmatter))
    => BodyIsFixed

\* A block has been stripped and the body that is left, a heading, comes back
\* unchanged from a second extraction.
C19_Witness ==
  /\ ExtractReturned
  /\ WellFormedBlock
  /\ frontmatter # None
  /\ content_without_frontmatter # md_content
  /\ content_without_frontmatter = B_heading
  /\ BodyIsFixed

\* A block has been stripped and the body that is left starts with a block
\* of its own, which a second extraction strips as well.
C19_SecondBlockStripped ==
  /\ ExtractReturned
  /\ WellFormedBlock
  /\ content_without_frontmatter = B_block
  /\ extract_yaml_frontmatter(content_without_frontmatter).content = <<>>

\* <h1>Hi</h1>
HiHeading == <<"<", "h", "1", ">", "H", "i", "<", "/", "h", "1", ">">>

\* C17: in a run over several documents the template given to the run never
\* changes and is the one every conversion uses, and nothing is carried from
\* one document to the next: two documents of the same text get the same
\* HTML wherever they come in the order, and with no template given the
\* HTML of the title: T document is the built-in page of that document alone.
C17_NoStateBetweenDocuments ==
  /\ [](\A i, j \in 1..Len(converted) :
          (converted[i].done /\ converted[j].done
           /\ items[i].text = items[j].text) => converted[i] = converted[j])
  /\ [](\A i \in 1..Len(converted) :
          (converted[i].ok /\ items[i].doc = D_title /\ template_arg = T_none) =>
            converted[i].html =
              BuiltInPage(<<"T">>, <<TitleMetaTag>>, markdown(B_heading)))
  /\ [](pc \notin {"idle", "returned"} => template_path = template_arg)
  /\ [][template_arg' = template_arg]_vars

\* A run has converted a.md, which fails, and a.markdown and s/b.MD, which
\* hold the same text and got the same HTML.
C17_Witness ==
  /\ dpc = "done"
  /\ Len(items) = 4
  /\ items[1].doc = D_scalar /\ converted[1].done /\ ~converted[1].ok
  /\ items[2].doc = D_title /\ converted[2].ok
  /\ items[4].doc = D_title /\ converted[4].ok
  /\ converted[2].html = converted[4].html
  /\ IsSubstring(HiHeading, converted[4].html)

\* C20: when process_directory has returned, with nothing kept from before
\* (mode overwrite), every Markdown file of the input tree has its .html file
\* at the same relative path of the output tree and, when copying is enabled,
\* every other file has its copy at the same relative path.
C20_TreeMirrored ==
  (dpc = "done" /\ mode = "overwrite") =>
    \A i \in 1..Len(items) :
      items[i].is_file =>
        IF IsMarkdown(items[i].name)
        THEN out[OutPath(items[i].dir, with_suffix(items[i].name, DotHtml))].exists
        ELSE copy_non_md =>
               out[OutPath(items[i].dir, items[i].name)]
                 = [exists |-> TRUE, text |-> items[i].text]

\* C28: once convert_md_to_html has built the render context, and while and
\* after it builds the meta tags, the metadata is what
\* extract_yaml_frontmatter returned, a list under the key meta_tags included.
C28_MetadataUnchanged ==
  (pc \in {"meta", "load", "render", "write", "returned"} /\ exc = "") =>
    frontmatter = Metadata

\* process_directory is past the tests of the two directories.
Validated == dpc \in {"walk", "file", "done", "raised"}

\* C21: process_directory raises ValueError whenever output_dir is input_dir
\* or lies inside it, before any file is read, converted, copied or created,
\* and raises nothing for an output_dir that is neither.
C21_ValueErrorBeforeAnyFile ==
  Validated =>
    IF placement \in {"same", "inside"}
    THEN /\ dpc = "raised"
         /\ raised = "ValueError"
         /\ file_count = 0
         /\ pending = 1..Len(items)
         /\ pc = "idle"
         /\ out = NoOutputs
         /\ out_dirs = {}
    ELSE raised = "" /\ dpc # "raised"

\* process_file has returned to process_directory, which has not yet taken
\* its result: out still holds the output tree of before the call.
FileReturned == dpc = "file" /\ pc = "returned"
\* The file at the output path of the current file before the call
OldOutput == out[Target(items[current])]
\* The call wrote the output file.
Replaced == log # <<>> /\ log[Len(log)].msg \in {"Converted", "Copied"}
\* The mode, or the answer at the prompt, lets an existing output be replaced.
MayReplace ==
  \/ mode = "overwrite"
  \/ mode = "interactive" /\ lower(response.text) = <<"y">>
\* The file is one process_file converts or copies.
Handled == IsMarkdown(items[current].name) \/ copy_non_md

C23_AnswerSetsMode ==
  (FileReturned /\ response.asked) =>
    /\ response.text = <<"o">> => Replaced /\ mode = "overwrite"
    /\ response.text = <<"s">> => ~Replaced /\ mode = "skip"
    /\ lower(response.text) \in {<<"y">>, <<"n">>} => mode = "interactive"

\* C24: a .jinja file among the inputs is skipped in every mode: no file is
\* written for it in the output tree by conversion or by copying.
C24_JinjaNeverCopied == ~out[OutPath(<<>>, JinjaName)].exists

\* The last record process_file logged
LastLogged == IF log = <<>> THEN "" ELSE log[Len(log)].msg
\* Reading or converting raised in the call, or copying did.
CallFailed == exc # "" \/ LastLogged = "Error copying"

C26_NothingWrittenInsideInput ==
  \A q \in OutPaths : out[q].exists => ~InsideInput(q)

\* process_file has written the output of item i in this run.
Written(i) ==
  /\ items[i].is_file
  /\ results[i] = "True"
  /\ \/ converted[i].ok
     \/ ~IsMarkdown(items[i].name) /\ copy_non_md /\ out[Target(items[i])].exists

\* C27: two different input files are written to two different output
\* paths, so no output is overwritten by a later file of the same run.
C27_DistinctOutputPaths ==
  \A i, j \in 1..Len(items) :
    (i # j /\ Written(i) /\ Written(j)) => Target(items[i]) # Target(items[j])

\* The step is a call of process_file that skips the file.
SkipStep ==
  /\ dpc = "walk"
  /\ dpc' = "file"
  /\ pc' = "returned"
  /\ log' # <<>>
  /\ log'[1].msg \in {"Skipped", "Skipped non-markdown file"}

\* C29: a call of process_file that skips its file changes nothing in the
\* output tree: no file and no directory is created or modified.
C29_SkipLeavesOutputTree ==
  [][SkipStep => (out_dirs' = out_dirs /\ output' = out[Target(items[current'])])]_vars

\* The files rglob yields
Files == {i \in 1..Len(items) : items[i].is_file}

\* C30: process_directory calls process_file for every file, also after a
\* call that returned False; it returns True exactly when every call returned
\* True; and success, once False, stays False.
C30_AllFilesAndConjunction ==
  /\ [](dpc = "done" =>
          /\ pending = {}
          /\ file_count = Cardinality(Files)
          /\ \A i \in Files : results[i] \in {"True", "False"}
          /\ success <=> \A i \in Files : results[i] = "True")
  /\ [](dpc \in {"walk", "file"} =>
          success <=> \A i \in Files : results[i] # "False")
  /\ [][success' => success]_vars

\* A call returns True after an earlier call of the run returned False.
C30_Witness ==
  /\ FileReturned
  /\ ~success
  /\ ret = "True"
  /\ \E i \in Files : results[i] = "False"
  /\ results[current] = "none"
====
